---- MODULE Spec2Model ----
(***************************************************************************)
(* Model of the airspace-acars simulator stream engine                     *)
(* (FlightDataService), its simulator adapters and the flight reporter     *)
(* (FlightService).                                                        *)
(*                                                                         *)
(* Time is counted in whole seconds.  A point in time is kept as its age   *)
(* (seconds elapsed since), saturating at the largest value any comparison *)
(* of the code can tell apart; the zero time.Time is the saturated age.    *)
(***************************************************************************)
EXTENDS Integers, Sequences, FiniteSets, TLC

\* ------------------------------------------------------------------ bounds
MaxAdapters == 2
MaxLoops == 2
MaxCalls == 2
MaxFaults == 1
MaxFlights == 2
MaxUiCalls == 2
MaxMoves == 2
MaxReports == 3
MaxOutages == 1
MaxFlightCalls == 3
MaxListeners == 2
MaxWireOps == 3
MaxMsgs == 1
MaxRows == 2
MaxRecCalls == 3
\* Late ticks of one position loop that are counted.
MaxLateTicks == 2
\* Calls of DisconnectSim and StopFlight.
MaxLockCalls == 2

\* --------------------------------------------------------- program constants
InitialBackoff == 2
BackoffLimit == 30
ConnectWait == 3
ErrorStatus == 400
StaleAfter == 10
BackoffBase == 5
BackoffCap == 60
posIntervalCritical == 500
posIntervalLow == 1000
posIntervalHigh == 2000
posIntervalStatic == 60000
criticalAltThreshold == 50
highAltThreshold == 10000
StaticAfter == 5
retryAttempts == 4
maxPendingReports == 500

VARIABLES
    \* FlightDataService fields
    connector,          \* bound adapter instance, 0 = nil
    simActive,
    streaming,
    streamStopCh,       \* current stop channel, 0 = nil
    recording,
    dataCount,
    dbRows,             \* the rows of table flight_data in id order, each named by its id
    chClosed,           \* stop channels that have been closed
    \* adapter instances
    adKind,             \* "" (not constructed), "SimConnect", "X-Plane", "TestSim"
    adOpen,             \* SimConnect: sc != nil; X-Plane: conn != nil
    adData,             \* cached snapshot: "nil", "zero" (zero-valued struct), "snap"
    adRecv,             \* a simulator message has arrived since the last open
    getDataErr,         \* ReconnectableMockConnector.getDataErr != nil
    connectErr,         \* ReconnectableMockConnector.connectErr != nil
    lastReceived,       \* ReconnectableMockConnector.lastReceived: age in seconds, Never = zero time
    connectCalls,
    disconnectCalls,
    faults,             \* opens the transports have refused so far
    \* dataStreamLoop goroutines
    pc,
    chSel,              \* channel the pending select waits on
    tickPending,        \* ticker.C holds a tick
    lConn,              \* local connector
    lRec,               \* local recording
    wasActive,
    lData,              \* result of connector.GetFlightData()
    reconnectBackoff,
    lastReconnectAttempt,   \* age in seconds; AgeCap = zero time or older
    rcConn,             \* attemptReconnect's local connector
    \* ConnectSim caller
    cs,                 \* "idle" or "wait"
    csConn,
    csElapsed,
    csResult,
    csNativeFailed,     \* the last ConnectSim was in auto mode and got no open native adapter
    uiCalls,
    \* observation of the event sink
    liveOk,             \* a latest call succeeded since the last bind, none failed, no disconnect since
    discReturned,       \* DisconnectSim has returned and no ConnectSim was called since
    fdAfterDisc,        \* flight-data events emitted since DisconnectSim returned
    emptyAfterDisc,     \* empty connection-state events of and since that DisconnectSim
    connState,          \* payload of the last connection-state event, "none" before the first
    activatedSinceBind, \* some loop set simActive since the last bind
    \* FlightService fields
    state,              \* "idle" or "active"
    callsign,
    departure,
    arrival,
    stopCh,             \* current stop channel of the position loop, 0 = nil
    stopClosed,         \* stop channels that have been closed
    \* positionLoop goroutines; loop p was handed stop channel p
    ppc,
    pTick,              \* ticker.C holds a tick
    pConn,              \* GetFlightDataNow's local connector
    \* FlightService caller and event sink
    fsCall,             \* the last call made: its name, the state it met, the reply it
                        \* got, what it returned; seq counts the calls
    flightEvents,       \* the flight-state events emitted, in order
    \* the snapshot a mock adapter holds (MockSimConnector.data)
    simData,            \* [lat, lng, agl, onGround, zulu]
    moves,              \* changes made to it so far
    stampAge,           \* seconds since its Zulu time last changed
    \* positionLoop locals; times as ages in seconds, intervals in milliseconds
    lastLat,
    lastLng,
    lastChanged,
    currentInterval,
    fd,                 \* the snapshot of the tick in progress
    posChanged,
    lastPost,           \* the last position POST: its reply and whether it was taken as failed
    \* the retrying reporter and the backend
    pending,            \* the pending-reports buffer, oldest first
    report,             \* the report of the tick in progress, 0 = none
    tries,              \* attempts made for it
    built,              \* reports built so far; a report is named by its number
    received,           \* the reports the backend has received, in order
    freshTick,          \* the tick in progress began while the backend answered
    backendUp,
    outages,            \* changes of backendUp so far
    \* one adapter instance with its threads
    wKind,              \* its kind, "" = none constructed
    wCall,              \* the caller's position inside Connect or Disconnect
    wChans,             \* channels made so far; a channel is named by its number
    wClosed,            \* channels that have been closed
    wPanic,             \* the program panicked: a closed channel was closed again, or a
                        \* nil interface was asserted to a type
    wOps,               \* calls made by the caller so far
    wMsgs,              \* messages delivered by the simulator so far
    wRet,               \* what the caller's last call returned
    rdRet,              \* what the reader's last GetFlightData returned
    \* XPlaneAdapter fields
    xConn,              \* conn != nil
    xStop,              \* stop, 0 = nil
    xData,              \* data
    \* listenLoop goroutines
    xlPc,
    xlBuf,              \* buf
    xlN,                \* n
    xlOffset,           \* offset
    xlStart,            \* the snapshot when the datagram in buf arrived
    \* SimConnectAdapter fields and its run goroutine
    sSc,                \* sc != nil
    sLatestData,        \* latestData: nil, or the FlightData it points to
    sPc,
    sStopCh,            \* stopCh, 0 = none made
    \* the store and the ExportCSV call in progress
    nextId,             \* the id the next inserted row gets
    exPc,               \* the position of the ExportCSV call, "idle" = none
    exRows,             \* rows: the result of its query
    exFile,             \* the lines of the file it has written
    exRet,              \* what the last ExportCSV returned
    exClean,            \* no row was inserted or counted since its query
    recCalls,           \* recording and export calls made so far
    \* observation of the position loops
    ticksAfterStop,     \* ticks a running loop has started since endFlight closed its channel
    \* observation of the native SDK
    sdkCalls,           \* the SDK calls made so far, each with the thread that made it
    startedFor,         \* the callsign of the flight each position loop was started for
    \* mutexes and blocking waits
    muOwner,            \* the thread that holds each mutex, "" = free
    thPc,               \* position of each thread
    nat,                \* the native adapter: sc # nil, stopCh, stopped, the closed channels
    runStopped,         \* the channel each run thread closes when it returns
    errCh,              \* the run thread whose open result Connect waits for
    eng,                \* the engine and the reporter: connector # nil, streaming, flight active
    lkCalls             \* calls made so far

engineVars == <<connector, simActive, streaming, streamStopCh, recording, dataCount,
                dbRows, chClosed>>
adapterVars == <<adKind, adOpen, adData, adRecv, getDataErr, connectErr, lastReceived,
                 connectCalls, disconnectCalls, faults>>
loopVars == <<pc, chSel, tickPending, lConn, lRec, wasActive, lData,
              reconnectBackoff, lastReconnectAttempt, rcConn>>
callerVars == <<cs, csConn, csElapsed, csResult, csNativeFailed, uiCalls>>
obsVars == <<liveOk, discReturned, fdAfterDisc, emptyAfterDisc, connState,
             activatedSinceBind>>
flightVars == <<state, callsign, departure, arrival, stopCh, stopClosed, ppc, pTick,
                pConn, fsCall, flightEvents>>
simVars == <<simData, moves, stampAge>>
cadenceVars == <<lastLat, lastLng, lastChanged, currentInterval, fd, posChanged, lastPost>>
reporterVars == <<pending, report, tries, built, received, freshTick, backendUp, outages>>
termVars == <<ticksAfterStop, sdkCalls, startedFor>>
lockVars == <<muOwner, thPc, nat, runStopped, errCh, eng, lkCalls>>
recordVars == <<nextId, exPc, exRows, exFile, exRet, exClean, recCalls>>
wireVars == <<wKind, wCall, wChans, wClosed, wPanic, wOps, wMsgs, wRet, rdRet, xConn, xStop,
              xData, xlPc, xlBuf, xlN, xlOffset, xlStart, sSc, sLatestData, sPc, sStopCh>>
vars == <<engineVars, adapterVars, loopVars, callerVars, obsVars, flightVars, simVars,
          cadenceVars, reporterVars, wireVars, recordVars, termVars, lockVars>>

Adapters == 1..MaxAdapters
Loops == 1..MaxLoops

Min(a, b) == IF a < b THEN a ELSE b

\* Largest backoff the doubling of dataStreamLoop produces.
RECURSIVE Doubled(_)
Doubled(b) == IF b < BackoffLimit THEN Doubled(2 * b) ELSE b
AgeCap == Doubled(InitialBackoff)

\* The zero time.Time of a lastReceived field.
Never == 0 - 1

\* The age of lastReceived one second later; ages past the staleness limit are one value.
Older(age) == IF age = Never THEN Never ELSE Min(age + 1, StaleAfter + 1)

\* ---------------------------------------------------------------- adapters

FreeAdapters == {a \in Adapters : adKind[a] = ""}
NewAdapter == CHOOSE a \in FreeAdapters : \A b \in FreeAdapters : a <= b

\* Snapshot cache of a freshly constructed adapter: SimConnectAdapter.latestData is a
\* nil pointer, XPlaneAdapter.data is a zero-valued FlightData struct.
FreshData(kind) == IF kind = "X-Plane" THEN "zero" ELSE "nil"

\* connector.GetFlightData(): "err", or the snapshot returned.
GetFlightData(a) ==
    CASE adKind[a] = "SimConnect" -> IF adData[a] = "nil" THEN "err" ELSE adData[a]
      [] adKind[a] = "X-Plane" -> IF ~adOpen[a] THEN "err" ELSE adData[a]
      [] OTHER -> IF getDataErr[a] \/ adData[a] = "nil" THEN "err" ELSE adData[a]

\* What the transports can answer to an open: a refusal while the budget lasts.
Outcomes == IF faults < MaxFaults THEN {"ok", "dialErr", "subErr"} ELSE {"ok"}

Refused(o) == IF o = "ok" THEN faults ELSE faults + 1

\* connector.Connect() with the transport's outcome o ("ok", "dialErr", "subErr").
ConnectOk(a, o) == IF adKind[a] = "TestSim" THEN ~connectErr[a] ELSE o = "ok"

ConnectOpen(a, o) ==
    [adOpen EXCEPT ![a] =
        CASE adKind[a] = "TestSim" -> @
          [] o = "ok" -> TRUE
          [] adKind[a] = "X-Plane" /\ o = "subErr" -> FALSE
          [] OTHER -> @]

ConnectRecv(a, o) ==
    [adRecv EXCEPT ![a] = IF adKind[a] # "TestSim" /\ o = "ok" THEN FALSE ELSE @]

ConnectCalls(a) ==
    [connectCalls EXCEPT ![a] = IF adKind[a] = "TestSim" THEN Min(@ + 1, MaxCalls) ELSE @]

\* connector.Disconnect()
DisconnectOpen(a) == [adOpen EXCEPT ![a] = IF adKind[a] = "TestSim" THEN @ ELSE FALSE]

DisconnectData(a) == [adData EXCEPT ![a] = IF adKind[a] = "SimConnect" THEN "nil" ELSE @]

DisconnectCalls(a) ==
    [disconnectCalls EXCEPT ![a] = IF adKind[a] = "TestSim" THEN Min(@ + 1, MaxCalls) ELSE @]

\* The simulator delivers a message to an open adapter (producer thread of the adapter).
SimSend(a) ==
    /\ adKind[a] \in {"SimConnect", "X-Plane"}
    /\ adOpen[a]
    /\ adData' = [adData EXCEPT ![a] = "snap"]
    /\ adRecv' = [adRecv EXCEPT ![a] = TRUE]
    /\ UNCHANGED <<adKind, adOpen, getDataErr, connectErr, lastReceived, connectCalls, disconnectCalls,
                   faults>>
    /\ UNCHANGED <<engineVars, loopVars, callerVars, obsVars>>
    /\ UNCHANGED <<flightVars, simVars, cadenceVars, reporterVars, wireVars, recordVars, termVars, lockVars>>

\* ReconnectableMockConnector.SetError
SetError(a, e) ==
    /\ adKind[a] = "TestSim"
    /\ getDataErr' = [getDataErr EXCEPT ![a] = e]
    /\ UNCHANGED <<adKind, adOpen, adData, adRecv, connectErr, lastReceived, connectCalls,
                   disconnectCalls, faults>>
    /\ UNCHANGED <<engineVars, loopVars, callerVars, obsVars, flightVars, simVars,
                   cadenceVars, reporterVars, wireVars, recordVars, termVars, lockVars>>

\* ReconnectableMockConnector.SetConnectError
SetConnectError(a, e) ==
    /\ adKind[a] = "TestSim"
    /\ connectErr' = [connectErr EXCEPT ![a] = e]
    /\ UNCHANGED <<adKind, adOpen, adData, adRecv, getDataErr, lastReceived, connectCalls,
                   disconnectCalls, faults>>
    /\ UNCHANGED <<engineVars, loopVars, callerVars, obsVars, flightVars, simVars,
                   cadenceVars, reporterVars, wireVars, recordVars, termVars, lockVars>>

\* ------------------------------------------------------ adapter snapshots

\* A float64 is kept as a whole number of 1/Scale units.
Scale == 100000
Half == Scale \div 2
One == Scale

\* int(x): truncation toward zero.
Trunc(x) == IF x >= 0 THEN x \div Scale ELSE 0 - ((0 - x) \div Scale)

\* float64(val): every float32 is a float64.
Float(val) == val

\* x * k for a factor k kept in 1/Scale units; the product is formed in two parts so
\* that no intermediate value exceeds 32 bits.
Mul(x, k) == ((x * (k \div 1000)) * 10 + (x * (k % 1000)) \div 100) \div 1000

FeetPerMetre == 328084
KnotsPerMps == 194384
PoundsPerKg == 220462

\* The fields of FlightData, named by their Go paths.
Fields ==
    {"Position.Latitude", "Position.Longitude", "Position.Altitude",
     "Position.AltitudeAGL", "Attitude.Pitch", "Attitude.Roll", "Attitude.HeadingTrue",
     "Attitude.HeadingMag", "Attitude.VS", "Attitude.IAS", "Attitude.TAS", "Attitude.GS",
     "Attitude.GForce", "Engines[0].Exists", "Engines[0].Running", "Engines[0].N1",
     "Engines[0].N2", "Engines[0].ThrottlePos", "Engines[0].MixturePos",
     "Engines[0].PropPos", "Engines[1].Exists", "Engines[1].Running", "Engines[1].N1",
     "Engines[1].N2", "Engines[1].ThrottlePos", "Engines[1].MixturePos",
     "Engines[1].PropPos", "Engines[2].Exists", "Engines[2].Running", "Engines[2].N1",
     "Engines[2].N2", "Engines[2].ThrottlePos", "Engines[2].MixturePos",
     "Engines[2].PropPos", "Engines[3].Exists", "Engines[3].Running", "Engines[3].N1",
     "Engines[3].N2", "Engines[3].ThrottlePos", "Engines[3].MixturePos",
     "Engines[3].PropPos", "Sensors.OnGround", "Sensors.StallWarning",
     "Sensors.OverspeedWarning", "Sensors.SimulationRate", "Radios.Com1", "Radios.Com2",
     "Radios.Nav1", "Radios.Nav2", "Radios.Nav1OBS", "Radios.Nav2OBS", "Radios.XpdrCode",
     "Radios.XpdrState", "Autopilot.Master", "Autopilot.Heading", "Autopilot.Altitude",
     "Autopilot.VS", "Autopilot.Speed", "Autopilot.ApproachHold", "Autopilot.NavLock",
     "Altimeter", "Lights.Beacon", "Lights.Strobe", "Lights.Landing", "Controls.Elevator",
     "Controls.Aileron", "Controls.Rudder", "Controls.Flaps", "Controls.Spoilers",
     "Controls.GearDown", "SimTime.ZuluTime", "SimTime.ZuluDay", "SimTime.ZuluMonth",
     "SimTime.ZuluYear", "SimTime.LocalTime", "APU.SwitchOn", "APU.RPMPercent",
     "APU.GenSwitch", "APU.GenActive", "Doors[0].OpenRatio", "Doors[1].OpenRatio",
     "Doors[2].OpenRatio", "Doors[3].OpenRatio", "Doors[4].OpenRatio", "AircraftName",
     "Weight.TotalWeight", "Weight.FuelWeight"}

BoolFields ==
    {"Engines[0].Exists", "Engines[0].Running", "Engines[1].Exists", "Engines[1].Running",
     "Engines[2].Exists", "Engines[2].Running", "Engines[3].Exists", "Engines[3].Running",
     "Sensors.OnGround", "Sensors.StallWarning", "Sensors.OverspeedWarning",
     "Autopilot.Master", "Autopilot.ApproachHold", "Autopilot.NavLock", "Lights.Beacon",
     "Lights.Strobe", "Lights.Landing", "Controls.GearDown", "APU.SwitchOn",
     "APU.GenSwitch", "APU.GenActive"}

\* The zero value of a field: false, 0, or the empty string (AircraftName is kept as
\* its sequence of bytes).
ZeroValue(f) ==
    CASE f \in BoolFields -> FALSE
      [] f = "Radios.XpdrState" -> ""
      [] f = "AircraftName" -> <<>>
      [] OTHER -> 0

\* FlightData{}
ZeroFlightData == [f \in Fields |-> ZeroValue(f)]

TransponderStateString(val) ==
    CASE Trunc(val) = 0 -> "off"
      [] Trunc(val) = 1 -> "stand-by"
      [] OTHER -> "active"

RECURSIVE trimNullBytes(_)
trimNullBytes(b) ==
    IF b = <<>> \/ Head(b) = 0 THEN <<>> ELSE <<Head(b)>> \o trimNullBytes(Tail(b))

\* An entry application that writes the altitude in metres.
ApplyEntryMetres(d, idx, val) ==
    IF idx = 2 THEN [d EXCEPT !["Position.Altitude"] = Float(val)] ELSE d

\* One RREF response entry applied to the snapshot: the switch of listenLoop.
ApplyEntry(d, idx, val) ==
    CASE idx = 0 -> [d EXCEPT !["Position.Latitude"] = Float(val)]
      [] idx = 1 -> [d EXCEPT !["Position.Longitude"] = Float(val)]
      [] idx = 2 -> [d EXCEPT !["Position.Altitude"] = Mul(Float(val), FeetPerMetre)]
      [] idx = 3 -> [d EXCEPT !["Position.AltitudeAGL"] = Mul(Float(val), FeetPerMetre)]
      [] idx = 4 -> [d EXCEPT !["Attitude.Pitch"] = Float(val)]
      [] idx = 5 -> [d EXCEPT !["Attitude.Roll"] = Float(val)]
      [] idx = 6 -> [d EXCEPT !["Attitude.HeadingTrue"] = Float(val)]
      [] idx = 7 -> [d EXCEPT !["Attitude.HeadingMag"] = Float(val)]
      [] idx = 8 -> [d EXCEPT !["Attitude.VS"] = Float(val)]
      [] idx = 9 -> [d EXCEPT !["Attitude.IAS"] = Float(val)]
      [] idx = 10 -> [d EXCEPT !["Attitude.TAS"] = Mul(Float(val), KnotsPerMps)]
      [] idx = 11 -> [d EXCEPT !["Attitude.GS"] = Mul(Float(val), KnotsPerMps)]
      [] idx = 12 -> [d EXCEPT !["Engines[0].Running"] = val # 0]
      [] idx = 13 -> [d EXCEPT !["Engines[0].N1"] = Float(val)]
      [] idx = 14 -> [d EXCEPT !["Engines[0].N2"] = Float(val)]
      [] idx = 15 -> [d EXCEPT !["Engines[0].ThrottlePos"] = Float(val) * 100]
      [] idx = 16 -> [d EXCEPT !["Engines[0].MixturePos"] = Float(val) * 100]
      [] idx = 17 -> [d EXCEPT !["Engines[0].PropPos"] = Float(val) * 100]
      [] idx = 18 -> [d EXCEPT !["Sensors.OnGround"] = val # 0]
      [] idx = 19 -> [d EXCEPT !["Sensors.StallWarning"] = val # 0]
      [] idx = 20 -> [d EXCEPT !["Sensors.OverspeedWarning"] = val # 0]
      [] idx = 21 -> [d EXCEPT !["Sensors.SimulationRate"] = Float(val)]
      [] idx = 22 -> [d EXCEPT !["Radios.Com1"] = Float(val) \div 100]
      [] idx = 23 -> [d EXCEPT !["Radios.Com2"] = Float(val) \div 100]
      [] idx = 24 -> [d EXCEPT !["Radios.Nav1"] = Float(val) \div 100]
      [] idx = 25 -> [d EXCEPT !["Radios.Nav2"] = Float(val) \div 100]
      [] idx = 26 -> [d EXCEPT !["Radios.Nav1OBS"] = Float(val)]
      [] idx = 27 -> [d EXCEPT !["Radios.Nav2OBS"] = Float(val)]
      [] idx = 28 -> [d EXCEPT !["Radios.XpdrCode"] = Float(val)]
      [] idx = 29 -> [d EXCEPT !["Radios.XpdrState"] = TransponderStateString(Float(val))]
      [] idx = 30 -> [d EXCEPT !["Autopilot.Master"] = val # 0]
      [] idx = 31 -> [d EXCEPT !["Autopilot.Heading"] = Float(val)]
      [] idx = 32 -> [d EXCEPT !["Autopilot.Altitude"] = Float(val)]
      [] idx = 33 -> [d EXCEPT !["Autopilot.VS"] = Float(val)]
      [] idx = 34 -> [d EXCEPT !["Autopilot.Speed"] = Float(val)]
      [] idx = 35 -> [d EXCEPT !["Autopilot.ApproachHold"] = val # 0]
      [] idx = 36 -> [d EXCEPT !["Autopilot.NavLock"] = val # 0]
      [] idx = 37 -> [d EXCEPT !["Altimeter"] = Float(val)]
      [] idx = 38 -> [d EXCEPT !["Lights.Beacon"] = val # 0]
      [] idx = 39 -> [d EXCEPT !["Lights.Strobe"] = val # 0]
      [] idx = 40 -> [d EXCEPT !["Lights.Landing"] = val # 0]
      [] idx = 41 -> [d EXCEPT !["Controls.Elevator"] = Float(val)]
      [] idx = 42 -> [d EXCEPT !["Controls.Aileron"] = Float(val)]
      [] idx = 43 -> [d EXCEPT !["Controls.Rudder"] = Float(val)]
      [] idx = 44 -> [d EXCEPT !["Controls.Flaps"] = Float(val) * 100]
      [] idx = 45 -> [d EXCEPT !["Controls.Spoilers"] = Float(val) * 100]
      [] idx = 46 -> [d EXCEPT !["Controls.GearDown"] = val # 0]
      [] idx = 47 -> [d EXCEPT !["SimTime.ZuluTime"] = Float(val)]
      [] idx = 48 -> [d EXCEPT !["SimTime.ZuluDay"] = Float(val)]
      [] idx = 49 -> [d EXCEPT !["SimTime.ZuluMonth"] = Float(val)]
      [] idx = 50 -> [d EXCEPT !["SimTime.ZuluYear"] = Float(val)]
      [] idx = 51 -> [d EXCEPT !["SimTime.LocalTime"] = Float(val)]
      [] idx = 52 -> [d EXCEPT !["Attitude.GForce"] = Float(val)]
      [] idx = 53 -> [d EXCEPT !["Engines[1].Running"] = val # 0]
      [] idx = 54 -> [d EXCEPT !["Engines[1].N1"] = Float(val)]
      [] idx = 55 -> [d EXCEPT !["Engines[1].N2"] = Float(val)]
      [] idx = 56 -> [d EXCEPT !["Engines[1].ThrottlePos"] = Float(val) * 100]
      [] idx = 57 -> [d EXCEPT !["Engines[1].MixturePos"] = Float(val) * 100]
      [] idx = 58 -> [d EXCEPT !["Engines[1].PropPos"] = Float(val) * 100]
      [] idx = 59 -> [d EXCEPT !["Engines[2].Running"] = val # 0]
      [] idx = 60 -> [d EXCEPT !["Engines[2].N1"] = Float(val)]
      [] idx = 61 -> [d EXCEPT !["Engines[2].N2"] = Float(val)]
      [] idx = 62 -> [d EXCEPT !["Engines[2].ThrottlePos"] = Float(val) * 100]
      [] idx = 63 -> [d EXCEPT !["Engines[2].MixturePos"] = Float(val) * 100]
      [] idx = 64 -> [d EXCEPT !["Engines[2].PropPos"] = Float(val) * 100]
      [] idx = 65 -> [d EXCEPT !["Engines[3].Running"] = val # 0]
      [] idx = 66 -> [d EXCEPT !["Engines[3].N1"] = Float(val)]
      [] idx = 67 -> [d EXCEPT !["Engines[3].N2"] = Float(val)]
      [] idx = 68 -> [d EXCEPT !["Engines[3].ThrottlePos"] = Float(val) * 100]
      [] idx = 69 -> [d EXCEPT !["Engines[3].MixturePos"] = Float(val) * 100]
      [] idx = 70 -> [d EXCEPT !["Engines[3].PropPos"] = Float(val) * 100]
      [] idx = 71 -> [d EXCEPT !["Weight.TotalWeight"] = Mul(Float(val), PoundsPerKg)]
      [] idx = 72 -> [d EXCEPT !["Weight.FuelWeight"] = Mul(Float(val), PoundsPerKg)]
      [] OTHER -> d

\* The fields of simReport.
ReportFields ==
    {"APAltitude", "APApproachHold", "APHeading", "APMaster", "APNavLock", "APSpeed",
     "APUGenActive", "APUGenSwitch", "APURPMPct", "APUSwitch", "APVS", "Aileron",
     "AltimeterInHg", "Altitude", "AltitudeAGL", "Com1", "Com2", "Door0Open", "Door1Open",
     "Door2Open", "Door3Open", "Door4Open", "Elevator", "Eng1Mixture", "Eng1N1", "Eng1N2",
     "Eng1Prop", "Eng1Running", "Eng1Throttle", "Eng2Mixture", "Eng2N1", "Eng2N2",
     "Eng2Prop", "Eng2Running", "Eng2Throttle", "Eng3Mixture", "Eng3N1", "Eng3N2",
     "Eng3Prop", "Eng3Running", "Eng3Throttle", "Eng4Mixture", "Eng4N1", "Eng4N2",
     "Eng4Prop", "Eng4Running", "Eng4Throttle", "Flaps", "FuelWeight", "GForce", "GS",
     "GearDown", "HeadingMag", "HeadingTrue", "IAS", "Latitude", "LightBeacon",
     "LightLanding", "LightStrobe", "LocalTime", "Longitude", "Nav1", "Nav1OBS", "Nav2",
     "Nav2OBS", "NumberOfEngines", "OnGround", "OverspeedWarning", "Pitch", "Roll",
     "Rudder", "SimulationRate", "Spoilers", "StallWarning", "TAS", "TotalWeight", "VS",
     "XpdrCode", "XpdrState", "ZuluDay", "ZuluMonth", "ZuluTime", "ZuluYear"}

\* A simReport of zeroes with an empty title.
ZeroReport == [n \in ReportFields \cup {"AircraftTitle"} |->
                  IF n = "AircraftTitle" THEN <<0, 0>> ELSE 0]

\* The FlightData built from one simReport.
FromReport(r) ==
    [f \in Fields |->
        CASE f = "Position.Latitude" -> r["Latitude"]
              [] f = "Position.Longitude" -> r["Longitude"]
              [] f = "Position.Altitude" -> r["Altitude"]
              [] f = "Position.AltitudeAGL" -> r["AltitudeAGL"]
              [] f = "Attitude.Pitch" -> r["Pitch"]
              [] f = "Attitude.Roll" -> r["Roll"]
              [] f = "Attitude.HeadingTrue" -> r["HeadingTrue"]
              [] f = "Attitude.HeadingMag" -> r["HeadingMag"]
              [] f = "Attitude.VS" -> r["VS"] * 60
              [] f = "Attitude.IAS" -> r["IAS"]
              [] f = "Attitude.TAS" -> r["TAS"]
              [] f = "Attitude.GS" -> r["GS"]
              [] f = "Attitude.GForce" -> r["GForce"]
              [] f = "Engines[0].Exists" -> Trunc(r["NumberOfEngines"]) >= 1
              [] f = "Engines[0].Running" -> r["Eng1Running"] # 0
              [] f = "Engines[0].N1" -> r["Eng1N1"]
              [] f = "Engines[0].N2" -> r["Eng1N2"]
              [] f = "Engines[0].ThrottlePos" -> r["Eng1Throttle"]
              [] f = "Engines[0].MixturePos" -> r["Eng1Mixture"]
              [] f = "Engines[0].PropPos" -> r["Eng1Prop"]
              [] f = "Engines[1].Exists" -> Trunc(r["NumberOfEngines"]) >= 2
              [] f = "Engines[1].Running" -> r["Eng2Running"] # 0
              [] f = "Engines[1].N1" -> r["Eng2N1"]
              [] f = "Engines[1].N2" -> r["Eng2N2"]
              [] f = "Engines[1].ThrottlePos" -> r["Eng2Throttle"]
              [] f = "Engines[1].MixturePos" -> r["Eng2Mixture"]
              [] f = "Engines[1].PropPos" -> r["Eng2Prop"]
              [] f = "Engines[2].Exists" -> Trunc(r["NumberOfEngines"]) >= 3
              [] f = "Engines[2].Running" -> r["Eng3Running"] # 0
              [] f = "Engines[2].N1" -> r["Eng3N1"]
              [] f = "Engines[2].N2" -> r["Eng3N2"]
              [] f = "Engines[2].ThrottlePos" -> r["Eng3Throttle"]
              [] f = "Engines[2].MixturePos" -> r["Eng3Mixture"]
              [] f = "Engines[2].PropPos" -> r["Eng3Prop"]
              [] f = "Engines[3].Exists" -> Trunc(r["NumberOfEngines"]) >= 4
              [] f = "Engines[3].Running" -> r["Eng4Running"] # 0
              [] f = "Engines[3].N1" -> r["Eng4N1"]
              [] f = "Engines[3].N2" -> r["Eng4N2"]
              [] f = "Engines[3].ThrottlePos" -> r["Eng4Throttle"]
              [] f = "Engines[3].MixturePos" -> r["Eng4Mixture"]
              [] f = "Engines[3].PropPos" -> r["Eng4Prop"]
              [] f = "Sensors.OnGround" -> r["OnGround"] # 0
              [] f = "Sensors.StallWarning" -> r["StallWarning"] # 0
              [] f = "Sensors.OverspeedWarning" -> r["OverspeedWarning"] # 0
              [] f = "Sensors.SimulationRate" -> r["SimulationRate"]
              [] f = "Radios.Com1" -> r["Com1"]
              [] f = "Radios.Com2" -> r["Com2"]
              [] f = "Radios.Nav1" -> r["Nav1"]
              [] f = "Radios.Nav2" -> r["Nav2"]
              [] f = "Radios.Nav1OBS" -> r["Nav1OBS"]
              [] f = "Radios.Nav2OBS" -> r["Nav2OBS"]
              [] f = "Radios.XpdrCode" -> r["XpdrCode"]
              [] f = "Radios.XpdrState" -> TransponderStateString(r["XpdrState"])
              [] f = "Autopilot.Master" -> r["APMaster"] # 0
              [] f = "Autopilot.Heading" -> r["APHeading"]
              [] f = "Autopilot.Altitude" -> r["APAltitude"]
              [] f = "Autopilot.VS" -> r["APVS"]
              [] f = "Autopilot.Speed" -> r["APSpeed"]
              [] f = "Autopilot.ApproachHold" -> r["APApproachHold"] # 0
              [] f = "Autopilot.NavLock" -> r["APNavLock"] # 0
              [] f = "Altimeter" -> r["AltimeterInHg"]
              [] f = "Lights.Beacon" -> r["LightBeacon"] # 0
              [] f = "Lights.Strobe" -> r["LightStrobe"] # 0
              [] f = "Lights.Landing" -> r["LightLanding"] # 0
              [] f = "Controls.Elevator" -> r["Elevator"]
              [] f = "Controls.Aileron" -> r["Aileron"]
              [] f = "Controls.Rudder" -> r["Rudder"]
              [] f = "Controls.Flaps" -> r["Flaps"] * 100
              [] f = "Controls.Spoilers" -> r["Spoilers"] * 100
              [] f = "Controls.GearDown" -> r["GearDown"] # 0
              [] f = "SimTime.ZuluTime" -> r["ZuluTime"]
              [] f = "SimTime.ZuluDay" -> r["ZuluDay"]
              [] f = "SimTime.ZuluMonth" -> r["ZuluMonth"]
              [] f = "SimTime.ZuluYear" -> r["ZuluYear"]
              [] f = "SimTime.LocalTime" -> r["LocalTime"]
              [] f = "APU.SwitchOn" -> r["APUSwitch"] # 0
              [] f = "APU.RPMPercent" -> r["APURPMPct"]
              [] f = "APU.GenSwitch" -> r["APUGenSwitch"] # 0
              [] f = "APU.GenActive" -> r["APUGenActive"] # 0
              [] f = "Doors[0].OpenRatio" -> r["Door0Open"]
              [] f = "Doors[1].OpenRatio" -> r["Door1Open"]
              [] f = "Doors[2].OpenRatio" -> r["Door2Open"]
              [] f = "Doors[3].OpenRatio" -> r["Door3Open"]
              [] f = "Doors[4].OpenRatio" -> r["Door4Open"]
              [] f = "AircraftName" -> trimNullBytes(r["AircraftTitle"])
              [] f = "Weight.TotalWeight" -> r["TotalWeight"]
              [] f = "Weight.FuelWeight" -> r["FuelWeight"]]

\* ---------------------------------------------- one adapter and its threads

\* The adapter under test is used by a caller (Connect, Disconnect), a reader
\* (GetFlightData), its own producer threads and the simulator.

Listeners == 1..MaxListeners

\* Datagrams the simulator sends.  A datagram is its first four bytes, its length and
\* the 8-byte words that follow the 5-byte header.
Values == {0, Half, One, 2 * One}
PairIdx == {0, 1, 12, 29}
PairValues == {0, One}
SomeIdx == {0, 2, 12, 29}
NumDatarefs == 73
Word(i, v) == [idx |-> i, val |-> v]
Dgram(h, w) == [head |-> h, n |-> 5 + 8 * Len(w), words |-> w]
Datagrams ==
    {Dgram("RREF", <<Word(i, One)>>) : i \in 0..NumDatarefs}
    \cup {Dgram(h, <<Word(i, v)>>) : h \in {"RREF", "DATA"}, i \in SomeIdx, v \in Values}
    \cup {Dgram("RREF", <<Word(i, v), Word(j, w)>>) :
            i \in PairIdx, j \in PairIdx, v \in PairValues, w \in PairValues}
    \cup {[head |-> "RREF", n |-> k, words |-> <<>>] : k \in {0, 4, 5}}

\* listener.Read(buf): the datagram overwrites the beginning of the buffer.
ReadInto(buf, dg) ==
    [head |-> IF dg.n >= 4 THEN dg.head ELSE buf.head,
     words |-> dg.words \o SubSeq(buf.words, Len(dg.words) + 1, Len(buf.words))]

\* n < 5 || string(buf[0:4]) != "RREF"
Dropped(n, buf) == n < 5 \/ buf.head # "RREF"

\* The word at a byte offset of the buffer.
WordAt(buf, offset) == buf.words[((offset - 5) \div 8) + 1]

\* The snapshot after the rest of the datagram has been walked.
RECURSIVE ApplyFrom(_, _, _, _)
ApplyFrom(d, buf, offset, n) ==
    IF offset + 8 <= n /\ ((offset - 5) \div 8) + 1 <= Len(buf.words)
      THEN ApplyFrom(ApplyEntry(d, WordAt(buf, offset).idx, WordAt(buf, offset).val),
                     buf, offset + 8, n)
      ELSE d

\* The records the native SDK delivers.
Reports ==
    {[ZeroReport EXCEPT !["NumberOfEngines"] = e, !["Eng1Running"] = run,
                        !["Eng3N1"] = n1, !["XpdrState"] = x, !["Latitude"] = lat,
                        !["AircraftTitle"] = t] :
        e \in {0, 2 * One}, run \in {0, One}, n1 \in {0, One}, x \in {0, One, 2 * One},
        lat \in {0, One}, t \in {<<0, 0>>, <<65, 0>>}}

XMuFree == wCall # "disc"

\* close(ch): closing a closed channel panics.
CloseChan(ch) ==
    /\ wPanic' = (wPanic \/ ch \in wClosed)
    /\ wClosed' = wClosed \cup {ch}

WireFrame == UNCHANGED <<engineVars, adapterVars, loopVars, callerVars, obsVars, flightVars,
                         simVars, cadenceVars, reporterVars, recordVars, termVars, lockVars>>

\* The variables outside the adapter that a step of the run thread leaves alone.
RunFrame == UNCHANGED <<engineVars, adapterVars, loopVars, callerVars, obsVars, flightVars,
                        simVars, cadenceVars, reporterVars, recordVars, ticksAfterStop,
                        startedFor, lockVars>>

\* Calls into the SDK made by a thread other than the run thread.
SdkByCaller(calls) == {[call |-> c, by |-> "caller"] : c \in calls}

\* Calls into the SDK made inside run, on the locked OS thread (lines 180-233).
Sdk(calls) == {[call |-> c, by |-> "run"] : c \in calls}

FreeListeners == {l \in Listeners : xlPc[l] = "none"}

\* XPlaneAdapter.Connect with the transport's outcome.
XConnect(o) ==
    /\ wKind = "X-Plane"
    /\ wCall = "idle"
    /\ ~wPanic
    /\ ~xConn
    /\ wOps < MaxWireOps
    /\ wOps' = wOps + 1
    /\ wRet' = [op |-> "Connect", err |-> o # "ok", prev |-> wRet.op]
    /\ IF o = "ok"
         THEN /\ FreeListeners # {}
              /\ xConn' = TRUE
              /\ wChans' = wChans + 1
              /\ xStop' = wChans + 1
              /\ LET l == CHOOSE k \in FreeListeners : \A j \in FreeListeners : k <= j
                 IN  xlPc' = [xlPc EXCEPT ![l] = "listen"]
         ELSE \* resolve or dial failed, or a subscribe failed: conn is nil again
              /\ xConn' = FALSE
              /\ UNCHANGED <<wChans, xStop, xlPc>>
    /\ UNCHANGED <<wKind, wCall, wClosed, wPanic, wMsgs, rdRet, xData, xlBuf, xlN, xlOffset,
                   xlStart, sSc, sLatestData, sPc, sStopCh>>
    /\ WireFrame

\* XPlaneAdapter.Disconnect up to close(x.stop) (lines 172-176).
XDisconnectStop ==
    /\ wKind = "X-Plane"
    /\ wCall = "idle"
    /\ ~wPanic
    /\ wOps < MaxWireOps
    /\ wOps' = wOps + 1
    /\ wCall' = "disc"
    /\ IF xStop # 0 THEN CloseChan(xStop) ELSE UNCHANGED <<wClosed, wPanic>>
    /\ UNCHANGED <<wKind, wChans, wMsgs, wRet, rdRet, xConn, xStop, xData, xlPc, xlBuf, xlN,
                   xlOffset, xlStart, sSc, sLatestData, sPc, sStopCh>>
    /\ WireFrame

\* A Disconnect that keeps the closed channel in x.stop.
StopKept == xStop

\* x.stop = nil (line 177)
StopAfterClose == 0

\* The rest of XPlaneAdapter.Disconnect (lines 177-188).
XDisconnectConn ==
    /\ ~wPanic
    /\ wCall = "disc"
    /\ wKind = "X-Plane"
    /\ wCall' = "idle"
    /\ xStop' = StopAfterClose
    /\ xConn' = FALSE
    /\ wRet' = [op |-> "Disconnect", err |-> FALSE, prev |-> wRet.op]
    /\ UNCHANGED <<wKind, wChans, wClosed, wPanic, wOps, wMsgs, rdRet, xData, xlPc, xlBuf,
                   xlN, xlOffset, xlStart, sSc, sLatestData, sPc, sStopCh>>
    /\ WireFrame

\* XPlaneAdapter.GetFlightData
XGetFlightData ==
    /\ ~wPanic
    /\ wKind = "X-Plane"
    /\ XMuFree
    /\ rdRet' = IF xConn THEN [err |-> FALSE, data |-> xData]
                         ELSE [err |-> TRUE, data |-> ZeroFlightData]
    /\ rdRet' # rdRet
    /\ UNCHANGED <<wKind, wCall, wChans, wClosed, wPanic, wOps, wMsgs, wRet, xConn, xStop,
                   xData, xlPc, xlBuf, xlN, xlOffset, xlStart, sSc, sLatestData, sPc,
                   sStopCh>>
    /\ WireFrame

\* listenLoop: net.ListenUDP on the local address of the connection (lines 219-225).
\* x.conn is read without the mutex: when Disconnect has set it to nil, LocalAddr()
\* gives a nil interface and the type assertion panics.
XlListen(l) ==
    /\ ~wPanic
    /\ xlPc[l] = "listen"
    /\ IF xConn
         THEN /\ \E ok \in BOOLEAN :
                    xlPc' = [xlPc EXCEPT ![l] = IF ok THEN "select" ELSE "done"]
              /\ UNCHANGED wPanic
         ELSE /\ xlPc' = [xlPc EXCEPT ![l] = "done"]
              /\ wPanic' = TRUE
    /\ UNCHANGED <<wKind, wCall, wChans, wClosed, wOps, wMsgs, wRet, rdRet, xConn,
                   xStop, xData, xlBuf, xlN, xlOffset, xlStart, sSc, sLatestData, sPc,
                   sStopCh>>
    /\ WireFrame

\* select { case <-x.stop: return; default: } (lines 230-234); x.stop is read as it is
\* now, a nil channel is never ready.
XlSelect(l) ==
    /\ ~wPanic
    /\ xlPc[l] = "select"
    /\ xlPc' = [xlPc EXCEPT ![l] = IF xStop # 0 /\ xStop \in wClosed THEN "done" ELSE "read"]
    /\ UNCHANGED <<wKind, wCall, wChans, wClosed, wPanic, wOps, wMsgs, wRet, rdRet, xConn,
                   xStop, xData, xlBuf, xlN, xlOffset, xlStart, sSc, sLatestData, sPc,
                   sStopCh>>
    /\ WireFrame

\* listener.Read returns a datagram; the header check (lines 236-244).
XlRead(l, dg) ==
    /\ ~wPanic
    /\ xlPc[l] = "read"
    /\ wMsgs < MaxMsgs
    /\ wMsgs' = wMsgs + 1
    /\ LET buf == ReadInto(xlBuf[l], dg)
       IN  /\ xlBuf' = [xlBuf EXCEPT ![l] = buf]
           /\ xlN' = [xlN EXCEPT ![l] = dg.n]
           /\ xlStart' = [xlStart EXCEPT ![l] = xData]
           /\ IF Dropped(dg.n, buf) \/ ~(5 + 8 <= dg.n)
                THEN /\ xlPc' = [xlPc EXCEPT ![l] = "select"]
                     /\ xlOffset' = [xlOffset EXCEPT ![l] = 0]
                ELSE /\ xlPc' = [xlPc EXCEPT ![l] = "walk"]
                     /\ xlOffset' = [xlOffset EXCEPT ![l] = 5]
    /\ UNCHANGED <<wKind, wCall, wChans, wClosed, wPanic, wOps, wRet, rdRet, xConn, xStop,
                   xData, sSc, sLatestData, sPc, sStopCh>>
    /\ WireFrame

\* The read deadline passes (lines 237-240).
XlTimeout(l) ==
    /\ ~wPanic
    /\ xlPc[l] = "read"
    /\ xlPc' = [xlPc EXCEPT ![l] = "select"]
    /\ UNCHANGED <<wKind, wCall, wChans, wClosed, wPanic, wOps, wMsgs, wRet, rdRet, xConn,
                   xStop, xData, xlBuf, xlN, xlOffset, xlStart, sSc, sLatestData, sPc,
                   sStopCh>>
    /\ WireFrame

\* One entry of the datagram, applied under x.mu (lines 248-432).
XlEntry(l) ==
    /\ ~wPanic
    /\ xlPc[l] = "walk"
    /\ XMuFree
    /\ LET w == WordAt(xlBuf[l], xlOffset[l])
           more == xlOffset[l] + 8 + 8 <= xlN[l]
       IN  /\ xData' = ApplyEntry(xData, w.idx, w.val)
           /\ xlOffset' = [xlOffset EXCEPT ![l] = IF more THEN @ + 8 ELSE 0]
           /\ xlPc' = [xlPc EXCEPT ![l] = IF more THEN "walk" ELSE "select"]
    /\ UNCHANGED <<wKind, wCall, wChans, wClosed, wPanic, wOps, wMsgs, wRet, rdRet, xConn,
                   xStop, xlBuf, xlN, xlStart, sSc, sLatestData, sPc, sStopCh>>
    /\ WireFrame

\* SimConnectAdapter.Connect: the run thread opens the SDK and registers the data
\* definition, Connect returns what it sends on errCh (lines 157-204).
SConnect(o) ==
    /\ wKind = "SimConnect"
    /\ wCall = "idle"
    /\ ~wPanic
    /\ sPc # "loop"
    /\ wOps < MaxWireOps
    /\ wOps' = wOps + 1
    /\ wChans' = wChans + 1
    /\ sStopCh' = wChans + 1
    /\ wRet' = [op |-> "Connect", err |-> o # "ok", prev |-> wRet.op]
    /\ IF o = "ok"
         THEN /\ sSc' = TRUE
              /\ sPc' = "loop"
         ELSE /\ sSc' = FALSE
              /\ sPc' = "done"
    /\ sdkCalls' = sdkCalls \union
                      Sdk(CASE o = "ok" -> {"open", "register", "request"}
                            [] o = "openErr" -> {"open"}
                            [] OTHER -> {"open", "register", "close"})
    /\ UNCHANGED <<wKind, wCall, wClosed, wPanic, wMsgs, rdRet, xConn, xStop, xData, xlPc,
                   xlBuf, xlN, xlOffset, xlStart, sLatestData>>
    /\ RunFrame

\* SimConnectAdapter.Disconnect up to the wait for the run thread (lines 167-174).
SDisconnectStop ==
    /\ wKind = "SimConnect"
    /\ wCall = "idle"
    /\ ~wPanic
    /\ wOps < MaxWireOps
    /\ wOps' = wOps + 1
    /\ IF sSc
         THEN /\ CloseChan(sStopCh)
              /\ wCall' = "wait"
              /\ UNCHANGED wRet
         ELSE /\ wRet' = [op |-> "Disconnect", err |-> FALSE, prev |-> wRet.op]
              /\ UNCHANGED <<wCall, wClosed, wPanic>>
    /\ UNCHANGED <<wKind, wChans, wMsgs, rdRet, xConn, xStop, xData, xlPc, xlBuf, xlN,
                   xlOffset, xlStart, sSc, sLatestData, sPc, sStopCh>>
    /\ WireFrame

\* case <-s.stopCh: return, and the deferred cleanup (lines 214-226, 183).
SRunStop ==
    /\ ~wPanic
    /\ sPc = "loop"
    /\ sStopCh \in wClosed
    /\ sPc' = "done"
    /\ sSc' = FALSE
    /\ sLatestData' = [nil |-> TRUE, data |-> ZeroFlightData]
    /\ sdkCalls' = sdkCalls \union Sdk({"close"})
    /\ UNCHANGED <<wKind, wCall, wChans, wClosed, wPanic, wOps, wMsgs, wRet, rdRet, xConn,
                   xStop, xData, xlPc, xlBuf, xlN, xlOffset, xlStart, sStopCh>>
    /\ RunFrame

\* <-s.stopped, return nil (lines 174-176).
SDisconnectWait ==
    /\ ~wPanic
    /\ wCall = "wait"
    /\ sPc = "done"
    /\ wCall' = "idle"
    /\ wRet' = [op |-> "Disconnect", err |-> FALSE, prev |-> wRet.op]
    /\ UNCHANGED <<wKind, wChans, wClosed, wPanic, wOps, wMsgs, rdRet, xConn, xStop, xData,
                   xlPc, xlBuf, xlN, xlOffset, xlStart, sSc, sLatestData, sPc, sStopCh>>
    /\ WireFrame

\* A record is dispatched: the snapshot is built, then published (lines 236-362).
SRunDispatch(r) ==
    /\ ~wPanic
    /\ sPc = "loop"
    /\ wMsgs < MaxMsgs
    /\ wMsgs' = wMsgs + 1
    /\ sLatestData' = [nil |-> FALSE, data |-> FromReport(r)]
    /\ sdkCalls' = sdkCalls \union Sdk({"dispatch"})
    /\ UNCHANGED <<wKind, wCall, wChans, wClosed, wPanic, wOps, wRet, rdRet, xConn, xStop,
                   xData, xlPc, xlBuf, xlN, xlOffset, xlStart, sSc, sPc, sStopCh>>
    /\ RunFrame

\* SimConnectAdapter.GetFlightData
SGetFlightData ==
    /\ ~wPanic
    /\ wKind = "SimConnect"
    /\ rdRet' = IF sLatestData.nil THEN [err |-> TRUE, data |-> ZeroFlightData]
                                   ELSE [err |-> FALSE, data |-> sLatestData.data]
    /\ rdRet' # rdRet
    /\ UNCHANGED <<wKind, wCall, wChans, wClosed, wPanic, wOps, wMsgs, wRet, xConn, xStop,
                   xData, xlPc, xlBuf, xlN, xlOffset, xlStart, sSc, sLatestData, sPc,
                   sStopCh>>
    /\ WireFrame

\* A freshly constructed adapter of kind k (NewXPlaneAdapter, NewSimConnectAdapter).
NewAdapterOf(k) ==
    /\ wKind = k
    /\ wCall = "idle"
    /\ wChans = 0
    /\ wClosed = {}
    /\ wPanic = FALSE
    /\ wOps = 0
    /\ wMsgs = 0
    /\ wRet = [op |-> "none", err |-> FALSE, prev |-> "none"]
    /\ rdRet = [err |-> TRUE, data |-> ZeroFlightData]
    /\ xConn = FALSE
    /\ xStop = 0
    /\ xData = ZeroFlightData
    /\ xlPc = [l \in Listeners |-> "none"]
    /\ xlBuf = [l \in Listeners |-> [head |-> "", words |-> <<>>]]
    /\ xlN = [l \in Listeners |-> 0]
    /\ xlOffset = [l \in Listeners |-> 0]
    /\ xlStart = [l \in Listeners |-> ZeroFlightData]
    /\ sSc = FALSE
    /\ sLatestData = [nil |-> TRUE, data |-> ZeroFlightData]
    /\ sPc = "none"
    /\ sStopCh = 0
    /\ sdkCalls = {}

\* No adapter is under test: there are no adapter fields and no threads.
WireInit ==
    /\ wKind = ""
    /\ wCall = "idle"
    /\ wChans = 0
    /\ wClosed = {}
    /\ wPanic = FALSE
    /\ wOps = 0
    /\ wMsgs = 0
    /\ wRet = <<>>
    /\ rdRet = <<>>
    /\ xConn = FALSE
    /\ xStop = 0
    /\ xData = <<>>
    /\ xlPc = <<>>
    /\ xlBuf = <<>>
    /\ xlN = <<>>
    /\ xlOffset = <<>>
    /\ xlStart = <<>>
    /\ sSc = FALSE
    /\ sLatestData = <<>>
    /\ sPc = "none"
    /\ sStopCh = 0
    /\ sdkCalls = {}

\* ------------------------------------------------------- FlightDataService

FreeLoops == {l \in Loops : pc[l] = "none"}
NewLoop == CHOOSE l \in FreeLoops : \A k \in FreeLoops : l <= k

\* A stop that leaves the stop channel open.
NotClosed == chClosed

\* stopDataStreamLocked
StoppedClosed == IF streaming THEN chClosed \cup {streamStopCh} ELSE chClosed

\* DisconnectSim, whole call (the mutex is held from entry to return).
DisconnectSimBody ==
    /\ streaming' = FALSE
    /\ chClosed' = StoppedClosed
    /\ IF connector # 0
         THEN /\ adOpen' = DisconnectOpen(connector)
              /\ adData' = DisconnectData(connector)
              /\ disconnectCalls' = DisconnectCalls(connector)
         ELSE UNCHANGED <<adOpen, adData, disconnectCalls>>
    /\ connector' = 0
    /\ simActive' = FALSE
    /\ liveOk' = FALSE
    /\ discReturned' = TRUE
    /\ fdAfterDisc' = FALSE
    /\ emptyAfterDisc' = 1
    /\ connState' = ""
    /\ UNCHANGED <<streamStopCh, recording, dataCount, dbRows>>
    /\ UNCHANGED <<adKind, adRecv, getDataErr, connectErr, lastReceived, connectCalls, faults>>
    /\ UNCHANGED <<loopVars, activatedSinceBind>>
    /\ UNCHANGED <<flightVars, simVars, cadenceVars, reporterVars, wireVars, recordVars, termVars, lockVars>>

DisconnectSim ==
    /\ uiCalls < MaxUiCalls
    /\ uiCalls' = uiCalls + 1
    /\ DisconnectSimBody
    /\ UNCHANGED <<cs, csConn, csElapsed, csResult, csNativeFailed>>

SimTypes == {"xplane", "simconnect", "auto"}

\* An auto mode that gives up when there is no native adapter.
NoFallback(simType, avail, o1) ==
    CASE simType = "xplane" -> "X-Plane"
      [] simType = "simconnect" -> IF avail THEN "SimConnect" ELSE ""
      [] OTHER -> IF avail THEN (IF o1 = "ok" THEN "SimConnect" ELSE "X-Plane") ELSE ""

\* The adapter kind ConnectSim ends up opening: "" when none can be constructed.
\* avail: NewSimConnectAdapter() returns non-nil; o1: outcome of the SimConnect open.
ChosenKind(simType, avail, o1) ==
    CASE simType = "xplane" -> "X-Plane"
      [] simType = "simconnect" -> IF avail THEN "SimConnect" ELSE ""
      [] OTHER -> IF avail /\ o1 = "ok" THEN "SimConnect" ELSE "X-Plane"

\* ConnectSim from entry to the release of the mutex (lines 42-89).
ConnectSimOpen(simType) ==
    /\ cs = "idle"
    /\ uiCalls < MaxUiCalls
    /\ uiCalls' = uiCalls + 1
    /\ \E avail \in BOOLEAN, o1 \in Outcomes \ {"subErr"}, o2 \in Outcomes \ {"subErr"} :
        LET had == connector # 0
            kind == ChosenKind(simType, avail, o1)
            o == IF kind = "SimConnect" THEN o1 ELSE o2
            \* the opens made: the native one of auto mode, then the chosen adapter's
            tried1 == simType = "auto" /\ avail /\ o1 # "ok"
            streaming1 == IF had THEN FALSE ELSE streaming
            closed1 == IF had THEN StoppedClosed ELSE chClosed
            open1 == IF had THEN DisconnectOpen(connector) ELSE adOpen
            data1 == IF had THEN DisconnectData(connector) ELSE adData
            calls1 == IF had THEN DisconnectCalls(connector) ELSE disconnectCalls
        IN  /\ discReturned' = FALSE
            /\ csNativeFailed' = (simType = "auto" /\ ~(avail /\ o1 = "ok"))
            /\ fdAfterDisc' = FALSE
            /\ emptyAfterDisc' = 0
            /\ UNCHANGED connState
            /\ disconnectCalls' = calls1
            /\ faults' = faults + (IF tried1 THEN 1 ELSE 0)
                                + (IF kind # "" /\ o # "ok" THEN 1 ELSE 0)
            /\ faults' <= MaxFaults
            /\ IF kind = "" \/ o # "ok"
                 THEN \* return "", error: lines 57-60 and 77-80
                      /\ csResult' = IF kind = "" THEN "unavailable" ELSE "openFailed"
                      /\ streaming' = streaming1
                      /\ chClosed' = closed1
                      /\ adOpen' = open1
                      /\ adData' = data1
                      /\ UNCHANGED <<connector, simActive, streamStopCh, adKind, adRecv>>
                      /\ UNCHANGED <<cs, csConn, csElapsed>>
                      /\ UNCHANGED <<liveOk, activatedSinceBind>>
                      /\ UNCHANGED loopVars
                 ELSE /\ FreeAdapters # {}
                      /\ streaming1 \/ FreeLoops # {}
                      /\ LET a == NewAdapter
                         IN  /\ adKind' = [adKind EXCEPT ![a] = kind]
                             /\ adOpen' = [open1 EXCEPT ![a] = TRUE]
                             /\ adData' = [data1 EXCEPT ![a] = FreshData(kind)]
                             /\ adRecv' = [adRecv EXCEPT ![a] = FALSE]
                             /\ connector' = a
                             /\ csConn' = a
                      /\ simActive' = FALSE
                      /\ liveOk' = FALSE
                      /\ activatedSinceBind' = FALSE
                      \* startDataStreamLocked
                      /\ streaming' = TRUE
                      /\ IF streaming1
                           THEN /\ chClosed' = closed1
                                /\ UNCHANGED <<streamStopCh, pc>>
                           ELSE LET l == NewLoop
                                IN  /\ streamStopCh' = l
                                    /\ chClosed' = closed1
                                    /\ pc' = [pc EXCEPT ![l] = "enter"]
                      /\ cs' = "wait"
                      /\ csElapsed' = 0
                      /\ csResult' = "pending"
                      /\ UNCHANGED <<chSel, tickPending, lConn, lRec, wasActive, lData,
                                     reconnectBackoff, lastReconnectAttempt, rcConn>>
    /\ UNCHANGED <<recording, dataCount, dbRows>>
    /\ UNCHANGED <<getDataErr, connectErr, lastReceived, connectCalls>>
    /\ UNCHANGED <<flightVars, simVars, cadenceVars, reporterVars, wireVars, recordVars, termVars, lockVars>>

\* The 200 ms probe of ConnectSim's wait (lines 101-108).
ConnectSimProbe ==
    /\ cs = "wait"
    /\ IF simActive
         THEN /\ cs' = "idle"
              /\ csResult' = adKind[csConn]
              /\ csConn' = 0
              /\ csElapsed' = 0
         ELSE UNCHANGED <<cs, csResult, csConn, csElapsed>>
    /\ UNCHANGED <<uiCalls, csNativeFailed>>
    /\ UNCHANGED <<engineVars, adapterVars, loopVars, obsVars>>
    /\ UNCHANGED <<flightVars, simVars, cadenceVars, reporterVars, wireVars, recordVars, termVars, lockVars>>

\* The 3 s deadline of ConnectSim's wait (lines 98-100).
ConnectSimDeadline ==
    /\ cs = "wait"
    /\ csElapsed >= ConnectWait
    /\ DisconnectSimBody
    /\ cs' = "idle"
    /\ csResult' = "silent"
    /\ csConn' = 0
    /\ csElapsed' = 0
    /\ UNCHANGED <<uiCalls, csNativeFailed>>

IsConnected == simActive

\* ----------------------------------------------------------- dataStreamLoop

\* The backoff after a failed reconnect attempt (lines 349-351).
NextBackoff(b) == IF b < BackoffLimit THEN 2 * b ELSE b

\* A guard that never lets an attempt through.
NeverDue(l) == FALSE

\* time.Since(lastReconnectAttempt) >= reconnectBackoff, the guard of line 343.
ReconnectDue(l) == reconnectBackoff[l] > 0 /\ lastReconnectAttempt[l] >= reconnectBackoff[l]

EmitFlightData == fdAfterDisc' = (fdAfterDisc \/ discReturned)

EmitEmptyState ==
    /\ emptyAfterDisc' = IF discReturned THEN Min(emptyAfterDisc + 1, 2) ELSE emptyAfterDisc
    /\ connState' = ""

\* connector.Name() is the adapter's kind.
EmitNamedState(l) == connState' = adKind[lConn[l]]

\* `continue`: the variables declared inside the case body (connector, recording,
\* wasActive, data) go out of scope; the loop returns to its select statement.
Continue(l) ==
    /\ pc' = [pc EXCEPT ![l] = "enter"]
    /\ lConn' = [lConn EXCEPT ![l] = 0]
    /\ lRec' = [lRec EXCEPT ![l] = FALSE]
    /\ wasActive' = [wasActive EXCEPT ![l] = FALSE]
    /\ lData' = [lData EXCEPT ![l] = "err"]
    /\ rcConn' = [rcConn EXCEPT ![l] = 0]

\* The select statement is entered: its channel operand f.streamStopCh is evaluated.
LoopEnter(l) ==
    /\ pc[l] = "enter"
    /\ chSel' = [chSel EXCEPT ![l] = streamStopCh]
    /\ pc' = [pc EXCEPT ![l] = "select"]
    /\ UNCHANGED <<tickPending, lConn, lRec, wasActive, lData, reconnectBackoff,
                   lastReconnectAttempt, rcConn>>
    /\ UNCHANGED <<engineVars, adapterVars, callerVars, obsVars>>
    /\ UNCHANGED <<flightVars, simVars, cadenceVars, reporterVars, wireVars, recordVars, termVars, lockVars>>

\* case <-f.streamStopCh: return
LoopStop(l) ==
    /\ pc[l] = "select"
    /\ chSel[l] \in chClosed
    /\ pc' = [pc EXCEPT ![l] = "done"]
    \* the goroutine returns: its ticker is stopped and its locals are gone
    /\ chSel' = [chSel EXCEPT ![l] = 0]
    /\ tickPending' = [tickPending EXCEPT ![l] = FALSE]
    /\ reconnectBackoff' = [reconnectBackoff EXCEPT ![l] = 0]
    /\ lastReconnectAttempt' = [lastReconnectAttempt EXCEPT ![l] = AgeCap]
    /\ UNCHANGED <<lConn, lRec, wasActive, lData, rcConn>>
    /\ UNCHANGED <<engineVars, adapterVars, callerVars, obsVars>>
    /\ UNCHANGED <<flightVars, simVars, cadenceVars, reporterVars, wireVars, recordVars, termVars, lockVars>>

\* case <-ticker.C: and the read of the engine state under the mutex (lines 317-326).
LoopTick(l) ==
    /\ pc[l] = "select"
    /\ tickPending[l]
    /\ tickPending' = [tickPending EXCEPT ![l] = FALSE]
    /\ IF connector = 0
         THEN Continue(l)
         ELSE /\ lConn' = [lConn EXCEPT ![l] = connector]
              /\ lRec' = [lRec EXCEPT ![l] = recording]
              /\ wasActive' = [wasActive EXCEPT ![l] = simActive]
              /\ pc' = [pc EXCEPT ![l] = "get"]
              /\ UNCHANGED <<lData, rcConn>>
    /\ UNCHANGED <<chSel, reconnectBackoff, lastReconnectAttempt>>
    /\ UNCHANGED <<engineVars, adapterVars, callerVars, obsVars>>
    /\ UNCHANGED <<flightVars, simVars, cadenceVars, reporterVars, wireVars, recordVars, termVars, lockVars>>

\* data, err := connector.GetFlightData() (lines 328-329, 361)
LoopGet(l) ==
    /\ pc[l] = "get"
    /\ LET r == GetFlightData(lConn[l])
       IN  /\ lData' = [lData EXCEPT ![l] = r]
           /\ IF r = "err"
                THEN /\ pc' = [pc EXCEPT ![l] = IF wasActive[l] THEN "errLock" ELSE "backoff"]
                     /\ UNCHANGED reconnectBackoff
                ELSE /\ pc' = [pc EXCEPT ![l] = IF wasActive[l] THEN "emitData" ELSE "okLock"]
                     /\ reconnectBackoff' = [reconnectBackoff EXCEPT ![l] = 0]
           /\ liveOk' = IF lConn[l] = connector THEN r # "err" ELSE liveOk
    /\ UNCHANGED <<chSel, tickPending, lConn, lRec, wasActive, lastReconnectAttempt, rcConn>>
    /\ UNCHANGED <<engineVars, adapterVars, callerVars>>
    /\ UNCHANGED <<discReturned, fdAfterDisc, emptyAfterDisc, connState,
                   activatedSinceBind>>
    /\ UNCHANGED <<flightVars, simVars, cadenceVars, reporterVars, wireVars, recordVars, termVars, lockVars>>

\* f.simActive = false under the mutex (lines 331-333)
LoopErrLock(l) ==
    /\ pc[l] = "errLock"
    /\ simActive' = FALSE
    /\ pc' = [pc EXCEPT ![l] = "errEmit"]
    /\ UNCHANGED <<connector, streaming, streamStopCh, recording, dataCount, dbRows, chClosed>>
    /\ UNCHANGED <<chSel, tickPending, lConn, lRec, wasActive, lData, reconnectBackoff,
                   lastReconnectAttempt, rcConn>>
    /\ UNCHANGED <<adapterVars, callerVars, obsVars>>
    /\ UNCHANGED <<flightVars, simVars, cadenceVars, reporterVars, wireVars, recordVars, termVars, lockVars>>

\* Emit("connection-state", "") and the arming of the backoff (lines 334-339)
LoopErrEmit(l) ==
    /\ pc[l] = "errEmit"
    /\ EmitEmptyState
    /\ reconnectBackoff' = [reconnectBackoff EXCEPT ![l] = InitialBackoff]
    /\ lastReconnectAttempt' = [lastReconnectAttempt EXCEPT ![l] = AgeCap]
    /\ pc' = [pc EXCEPT ![l] = "backoff"]
    /\ UNCHANGED <<chSel, tickPending, lConn, lRec, wasActive, lData, rcConn>>
    /\ UNCHANGED <<engineVars, adapterVars, callerVars>>
    /\ UNCHANGED <<liveOk, discReturned, fdAfterDisc, activatedSinceBind>>
    /\ UNCHANGED <<flightVars, simVars, cadenceVars, reporterVars, wireVars, recordVars, termVars, lockVars>>

\* The backoff guard, and attemptReconnect's read of f.connector (lines 343-347, 403-409)
LoopBackoff(l) ==
    /\ pc[l] = "backoff"
    /\ IF ReconnectDue(l)
         THEN /\ lastReconnectAttempt' = [lastReconnectAttempt EXCEPT ![l] = 0]
              /\ IF connector = 0
                   THEN /\ reconnectBackoff' =
                              [reconnectBackoff EXCEPT ![l] = NextBackoff(@)]
                        /\ Continue(l)
                   ELSE /\ rcConn' = [rcConn EXCEPT ![l] = connector]
                        /\ pc' = [pc EXCEPT ![l] = "rcDisconnect"]
                        /\ UNCHANGED <<reconnectBackoff, lConn, lRec, wasActive, lData>>
         ELSE /\ Continue(l)
              /\ UNCHANGED <<lastReconnectAttempt, reconnectBackoff>>
    /\ UNCHANGED <<chSel, tickPending>>
    /\ UNCHANGED <<engineVars, adapterVars, callerVars, obsVars>>
    /\ UNCHANGED <<flightVars, simVars, cadenceVars, reporterVars, wireVars, recordVars, termVars, lockVars>>

\* connector.Disconnect() of attemptReconnect (line 411)
LoopRcDisconnect(l) ==
    /\ pc[l] = "rcDisconnect"
    /\ adOpen' = DisconnectOpen(rcConn[l])
    /\ adData' = DisconnectData(rcConn[l])
    /\ disconnectCalls' = DisconnectCalls(rcConn[l])
    /\ pc' = [pc EXCEPT ![l] = "rcConnect"]
    /\ UNCHANGED <<adKind, adRecv, getDataErr, connectErr, lastReceived, connectCalls, faults>>
    /\ UNCHANGED <<chSel, tickPending, lConn, lRec, wasActive, lData, reconnectBackoff,
                   lastReconnectAttempt, rcConn>>
    /\ UNCHANGED <<engineVars, callerVars, obsVars>>
    /\ UNCHANGED <<flightVars, simVars, cadenceVars, reporterVars, wireVars, recordVars, termVars, lockVars>>

\* connector.Connect() of attemptReconnect and the backoff update (lines 412, 347-355)
LoopRcConnect(l) ==
    /\ pc[l] = "rcConnect"
    /\ \E o \in Outcomes :
        /\ faults' = (IF adKind[rcConn[l]] = "TestSim" THEN faults ELSE Refused(o))
        /\ adOpen' = ConnectOpen(rcConn[l], o)
        /\ adRecv' = ConnectRecv(rcConn[l], o)
        /\ connectCalls' = ConnectCalls(rcConn[l])
        /\ reconnectBackoff' =
              [reconnectBackoff EXCEPT ![l] =
                  IF ConnectOk(rcConn[l], o) THEN 0 ELSE NextBackoff(@)]
    /\ Continue(l)
    /\ UNCHANGED <<adKind, adData, getDataErr, connectErr, lastReceived, disconnectCalls>>
    /\ UNCHANGED <<chSel, tickPending, lastReconnectAttempt>>
    /\ UNCHANGED <<engineVars, callerVars, obsVars>>
    /\ UNCHANGED <<flightVars, simVars, cadenceVars, reporterVars, wireVars, recordVars, termVars, lockVars>>

\* f.simActive = true under the mutex (lines 363-366)
LoopOkLock(l) ==
    /\ pc[l] = "okLock"
    /\ simActive' = TRUE
    /\ activatedSinceBind' = TRUE
    /\ pc' = [pc EXCEPT ![l] = "okEmit"]
    /\ UNCHANGED <<connector, streaming, streamStopCh, recording, dataCount, dbRows, chClosed>>
    /\ UNCHANGED <<chSel, tickPending, lConn, lRec, wasActive, lData, reconnectBackoff,
                   lastReconnectAttempt, rcConn>>
    /\ UNCHANGED <<adapterVars, callerVars>>
    /\ UNCHANGED <<liveOk, discReturned, fdAfterDisc, emptyAfterDisc, connState>>
    /\ UNCHANGED <<flightVars, simVars, cadenceVars, reporterVars, wireVars, recordVars, termVars, lockVars>>

\* Emit("connection-state", connector.Name()) (lines 367-370)
LoopOkEmit(l) ==
    /\ pc[l] = "okEmit"
    /\ EmitNamedState(l)
    /\ pc' = [pc EXCEPT ![l] = "emitData"]
    /\ UNCHANGED <<chSel, tickPending, lConn, lRec, wasActive, lData, reconnectBackoff,
                   lastReconnectAttempt, rcConn>>
    /\ UNCHANGED <<engineVars, adapterVars, callerVars>>
    /\ UNCHANGED <<liveOk, discReturned, fdAfterDisc, emptyAfterDisc, activatedSinceBind>>
    /\ UNCHANGED <<flightVars, simVars, cadenceVars, reporterVars, wireVars, recordVars, termVars, lockVars>>

\* Emit("flight-data", data) (lines 373-377)
LoopEmitData(l) ==
    /\ pc[l] = "emitData"
    /\ EmitFlightData
    /\ IF lRec[l]
         THEN /\ pc' = [pc EXCEPT ![l] = "insert"]
              /\ UNCHANGED <<lConn, lRec, wasActive, lData, rcConn>>
         ELSE Continue(l)
    /\ UNCHANGED <<chSel, tickPending, reconnectBackoff, lastReconnectAttempt>>
    /\ UNCHANGED <<engineVars, adapterVars, callerVars>>
    /\ UNCHANGED <<liveOk, discReturned, emptyAfterDisc, connState, activatedSinceBind>>
    /\ UNCHANGED <<flightVars, simVars, cadenceVars, reporterVars, wireVars, recordVars, termVars, lockVars>>

\* ------------------------------------------------------------- snapshots

\* The fields of FlightData the position loop reads, and the Zulu time as its timestamp.
\* Latitude and longitude: 0 is 0.0, 1 another value.
ZeroData == [lat |-> 0, lng |-> 0, agl |-> 0, onGround |-> FALSE, zulu |-> 0]

sampleFlightData == [lat |-> 1, lng |-> 1, agl |-> 0, onGround |-> TRUE, zulu |-> 0]

DataValues ==
    [lat : {0, 1}, lng : {0, 1},
     agl : {criticalAltThreshold - 1, criticalAltThreshold, highAltThreshold},
     onGround : BOOLEAN, zulu : {0, 1}]

\* The content of the snapshot GetFlightData(a) returns.
Snapshot(a) == IF adData[a] = "zero" THEN ZeroData ELSE simData

\* A test gives the mock another snapshot.
SetData(d) ==
    /\ moves < MaxMoves
    /\ d # simData
    /\ simData' = d
    /\ moves' = moves + 1
    /\ stampAge' = IF d.zulu # simData.zulu THEN 0 ELSE stampAge
    /\ UNCHANGED <<engineVars, adapterVars, loopVars, callerVars, obsVars, flightVars,
                   cadenceVars, reporterVars, wireVars, recordVars, termVars, lockVars>>

\* ----------------------------------------------------------- FlightService

Positions == 1..MaxFlights

Callsigns == {"ACA101", "ACA202"}
Departures == {"CYUL"}
Arrivals == {"CYYZ"}

\* What auth.doRequest can return: a transport failure (err # nil, status 0) or the
\* status of the response, whatever it is.
Statuses == {200, 399, 400, 500}
NoReply == [err |-> FALSE, status |-> 0]
Replies == {[err |-> TRUE, status |-> 0]} \cup {[err |-> FALSE, status |-> st] : st \in Statuses}

\* A handler that gives up on a transport failure only.
TransportFailed(r) == r.err

\* A handler that reports the transport's verdict.
TransportResult(r) == IF r.err THEN "error" ELSE "ok"

\* StartFlight gives up: lines 95-100.
StartRejected(r) == r.err \/ r.status >= ErrorStatus

\* FinishFlight gives up: lines 158-168.
FinishRejected(r) == r.err \/ r.status >= ErrorStatus

\* StopFlight only logs a failed request and returns nil: lines 132-139.
StopResult(r) == "ok"

\* A guard that lets every StartFlight through.
NeverActive == FALSE

\* The guard of StartFlight: line 83.
AlreadyActive == state = "active"

\* The guard of StopFlight and FinishFlight: lines 123 and 146.
NotActive == state # "active"

FreePositions == {p \in Positions : ppc[p] = "none"}
NewPosition == CHOOSE p \in FreePositions : \A q \in FreePositions : p <= q

Called(name, r, res) ==
    [name |-> name, was |-> state, reply |-> r, result |-> res, seq |-> fsCall.seq + 1]

\* endFlight; called with the mutex held.
endFlight ==
    /\ stopClosed' = IF stopCh # 0 THEN stopClosed \cup {stopCh} ELSE stopClosed
    /\ stopCh' = 0
    /\ state' = "idle"
    /\ callsign' = ""
    /\ departure' = ""
    /\ arrival' = ""
    /\ flightEvents' = Append(flightEvents, "idle")

StartFlight(c, d, a) ==
    /\ fsCall.seq < MaxFlightCalls
    /\ IF AlreadyActive
         THEN /\ fsCall' = Called("StartFlight", NoReply, "error")
              /\ UNCHANGED <<state, callsign, departure, arrival, stopCh, ppc, flightEvents,
                             startedFor>>
         ELSE \E r \in Replies :
                IF StartRejected(r)
                  THEN /\ fsCall' = Called("StartFlight", r, "error")
                       /\ UNCHANGED <<state, callsign, departure, arrival, stopCh, ppc,
                                      flightEvents, startedFor>>
                  ELSE /\ FreePositions # {}
                       /\ startedFor' = [startedFor EXCEPT ![NewPosition] = c]
                       /\ state' = "active"
                       /\ callsign' = c
                       /\ departure' = d
                       /\ arrival' = a
                       /\ stopCh' = NewPosition
                       /\ ppc' = [ppc EXCEPT ![NewPosition] = "select"]
                       /\ flightEvents' = Append(flightEvents, "active")
                       /\ fsCall' = Called("StartFlight", r, "ok")
    /\ UNCHANGED <<stopClosed, pTick, pConn>>
    /\ UNCHANGED <<simVars, cadenceVars, reporterVars, wireVars, recordVars, ticksAfterStop,
                   sdkCalls, lockVars>>
    /\ UNCHANGED <<engineVars, adapterVars, loopVars, callerVars, obsVars>>

StopFlight ==
    /\ fsCall.seq < MaxFlightCalls
    /\ IF NotActive
         THEN /\ fsCall' = Called("StopFlight", NoReply, "error")
              /\ UNCHANGED <<state, callsign, departure, arrival, stopCh, stopClosed,
                             flightEvents>>
         ELSE \E r \in Replies :
                /\ endFlight
                /\ fsCall' = Called("StopFlight", r, StopResult(r))
    /\ UNCHANGED <<ppc, pTick, pConn>>
    /\ UNCHANGED <<simVars, cadenceVars, reporterVars, wireVars, recordVars, termVars, lockVars>>
    /\ UNCHANGED <<engineVars, adapterVars, loopVars, callerVars, obsVars>>

FinishFlight ==
    /\ fsCall.seq < MaxFlightCalls
    /\ IF NotActive
         THEN /\ fsCall' = Called("FinishFlight", NoReply, "error")
              /\ UNCHANGED <<state, callsign, departure, arrival, stopCh, stopClosed,
                             flightEvents>>
         ELSE \E r \in Replies :
                IF FinishRejected(r)
                  THEN /\ fsCall' = Called("FinishFlight", r, "error")
                       /\ UNCHANGED <<state, callsign, departure, arrival, stopCh,
                                      stopClosed, flightEvents>>
                  ELSE /\ endFlight
                       /\ fsCall' = Called("FinishFlight", r, "ok")
    /\ UNCHANGED <<ppc, pTick, pConn>>
    /\ UNCHANGED <<simVars, cadenceVars, reporterVars, wireVars, recordVars, termVars, lockVars>>
    /\ UNCHANGED <<engineVars, adapterVars, loopVars, callerVars, obsVars>>

\* ------------------------------------------------------------- positionLoop

\* An interval that knows no critical phase.
NewIntervalNoCritical(changed, since, d) ==
    CASE ~changed /\ since > StaticAfter -> posIntervalStatic
      [] d.agl >= highAltThreshold -> posIntervalHigh
      [] OTHER -> posIntervalLow

\* The interval chosen on a tick: lines 227-236.  since: time.Since(lastChanged).
NewInterval(changed, since, d) ==
    CASE ~changed /\ since > StaticAfter -> posIntervalStatic
      [] ~d.onGround /\ d.agl < criticalAltThreshold -> posIntervalCritical
      [] d.agl >= highAltThreshold -> posIntervalHigh
      [] OTHER -> posIntervalLow

\* A change detection that looks at the latitude only.
LatChanged(d, lat, lng) == d.lat # lat

\* posChanged: line 219.
PosChanged(d, lat, lng) == d.lat # lat \/ d.lng # lng

\* The position POST is taken as failed: err != nil, lines 243-246.
PosFailed(r) == r.err

NoPost == [reply |-> NoReply, failed |-> FALSE, callsign |-> ""]

\* The locals of a positionLoop goroutine that has returned or is between ticks.
PosLocalsGone(p) ==
    /\ fd' = [fd EXCEPT ![p] = ZeroData]
    /\ posChanged' = [posChanged EXCEPT ![p] = FALSE]

\* case <-stopCh: return
PosStop(p) ==
    /\ ppc[p] = "select"
    /\ p \in stopClosed
    /\ ppc' = [ppc EXCEPT ![p] = "done"]
    /\ pTick' = [pTick EXCEPT ![p] = FALSE]
    /\ lastLat' = [lastLat EXCEPT ![p] = 0]
    /\ lastLng' = [lastLng EXCEPT ![p] = 0]
    /\ lastChanged' = [lastChanged EXCEPT ![p] = 0]
    /\ currentInterval' = [currentInterval EXCEPT ![p] = posIntervalLow]
    \* the count of late ticks ends with the loop
    /\ ticksAfterStop' = [ticksAfterStop EXCEPT ![p] = 0]
    /\ UNCHANGED <<fd, posChanged, lastPost>>
    /\ UNCHANGED <<state, callsign, departure, arrival, stopCh, stopClosed, pConn, fsCall,
                   flightEvents>>
    /\ UNCHANGED <<simVars, reporterVars, wireVars, recordVars, sdkCalls, startedFor,
                   lockVars>>
    /\ UNCHANGED <<engineVars, adapterVars, loopVars, callerVars, obsVars>>

\* endFlight has closed the channel of loop p and set f.stopCh to nil (lines 177-180).
EndedByFlight(p) == p \in stopClosed /\ stopCh # p

\* case <-ticker.C: and GetFlightDataNow's read of f.connector under the engine's mutex
PosTick(p) ==
    /\ ppc[p] = "select"
    /\ pTick[p]
    /\ pTick' = [pTick EXCEPT ![p] = FALSE]
    /\ IF connector = 0
         THEN UNCHANGED <<ppc, pConn>>
         ELSE /\ pConn' = [pConn EXCEPT ![p] = connector]
              /\ ppc' = [ppc EXCEPT ![p] = "get"]
    /\ ticksAfterStop' = [ticksAfterStop EXCEPT
                             ![p] = IF EndedByFlight(p) THEN Min(@ + 1, MaxLateTicks) ELSE @]
    /\ UNCHANGED <<state, callsign, departure, arrival, stopCh, stopClosed, fsCall,
                   flightEvents>>
    /\ UNCHANGED <<simVars, cadenceVars, reporterVars, wireVars, recordVars, sdkCalls,
                   startedFor, lockVars>>
    /\ UNCHANGED <<engineVars, adapterVars, loopVars, callerVars, obsVars>>

\* connector.GetFlightData() of GetFlightDataNow; on an error the loop continues
PosGet(p) ==
    /\ ppc[p] = "get"
    /\ IF GetFlightData(pConn[p]) = "err"
         THEN /\ ppc' = [ppc EXCEPT ![p] = "select"]
              /\ UNCHANGED fd
         ELSE /\ ppc' = [ppc EXCEPT ![p] = "interval"]
              /\ fd' = [fd EXCEPT ![p] = Snapshot(pConn[p])]
    /\ pConn' = [pConn EXCEPT ![p] = 0]
    /\ UNCHANGED <<state, callsign, departure, arrival, stopCh, stopClosed, pTick, fsCall,
                   flightEvents>>
    /\ UNCHANGED <<lastLat, lastLng, lastChanged, currentInterval, posChanged, lastPost>>
    /\ UNCHANGED <<simVars, reporterVars, wireVars, recordVars, termVars, lockVars>>
    /\ UNCHANGED <<engineVars, adapterVars, loopVars, callerVars, obsVars>>

\* The position change is detected and the ticker adapted: lines 218-240.
PosInterval(p) ==
    /\ ppc[p] = "interval"
    /\ LET changed == PosChanged(fd[p], lastLat[p], lastLng[p])
           since == IF changed THEN 0 ELSE lastChanged[p]
           newInterval == NewInterval(changed, since, fd[p])
       IN  /\ posChanged' = [posChanged EXCEPT ![p] = changed]
           /\ lastLat' = [lastLat EXCEPT ![p] = IF changed THEN fd[p].lat ELSE @]
           /\ lastLng' = [lastLng EXCEPT ![p] = IF changed THEN fd[p].lng ELSE @]
           /\ lastChanged' = [lastChanged EXCEPT ![p] = since]
           \* ticker.Reset(currentInterval) when the interval differs
           /\ currentInterval' = [currentInterval EXCEPT ![p] = newInterval]
    /\ ppc' = [ppc EXCEPT ![p] = "report"]
    /\ UNCHANGED <<fd, lastPost>>
    /\ UNCHANGED <<state, callsign, departure, arrival, stopCh, stopClosed, pTick, pConn,
                   fsCall, flightEvents>>
    /\ UNCHANGED <<simVars, reporterVars, wireVars, recordVars, termVars, lockVars>>
    /\ UNCHANGED <<engineVars, adapterVars, loopVars, callerVars, obsVars>>

\* buildPositionReport reads f.callsign under the flight mutex when the report is built
\* (lines 261-267).
ReportIdentity(p) == callsign

\* The position report is built and posted: lines 242-243.
PosReport(p) ==
    /\ ppc[p] = "report"
    /\ \E r \in Replies :
          lastPost' = [lastPost EXCEPT ![p] = [reply |-> r, failed |-> PosFailed(r),
                                               callsign |-> ReportIdentity(p)]]
    /\ ppc' = [ppc EXCEPT ![p] = "posted"]
    /\ UNCHANGED <<fd, posChanged>>
    /\ UNCHANGED <<lastLat, lastLng, lastChanged, currentInterval>>
    /\ UNCHANGED <<state, callsign, departure, arrival, stopCh, stopClosed, pTick, pConn,
                   fsCall, flightEvents>>
    /\ UNCHANGED <<simVars, reporterVars, wireVars, recordVars, termVars, lockVars>>
    /\ UNCHANGED <<engineVars, adapterVars, loopVars, callerVars, obsVars>>

\* A failure is only logged, and the tick ends: lines 244-247.
PosLogged(p) ==
    /\ ppc[p] = "posted"
    /\ lastPost' = [lastPost EXCEPT ![p] = NoPost]
    /\ ppc' = [ppc EXCEPT ![p] = "select"]
    /\ PosLocalsGone(p)
    /\ UNCHANGED <<lastLat, lastLng, lastChanged, currentInterval>>
    /\ UNCHANGED <<state, callsign, departure, arrival, stopCh, stopClosed, pTick, pConn,
                   fsCall, flightEvents>>
    /\ UNCHANGED <<simVars, reporterVars, wireVars, recordVars, termVars, lockVars>>
    /\ UNCHANGED <<engineVars, adapterVars, loopVars, callerVars, obsVars>>

\* ------------------------------------------------- the retrying reporter
\* doRequestWithRetry, flushPendingReports and the pending buffer of positionLoop are
\* called by the tests of flight_service_test.go; they are modelled from the
\* specification's "Retry and queueing".

\* What the backend answers: nothing while it is unreachable.
BackendReplies == {r \in Replies : r.err = ~backendUp}

\* An attempt failed: doRequest returned an error.  doRequestWithRetry retries on these,
\* not on HTTP status codes.
RetryFailed(r) == r.err

\* A reporter that gives up one attempt early.
GiveUpEarly(n) == n >= retryAttempts - 1

\* The attempts are exhausted.
GiveUp(n) == n >= retryAttempts

\* A buffer that refuses the new report when it is full.
EnqueueKeepOldest(q, r) == IF Len(q) >= maxPendingReports THEN q ELSE Append(q, r)

\* The report is appended to the pending buffer; a full buffer drops its oldest.
Enqueue(q, r) == IF Len(q) >= maxPendingReports THEN Append(Tail(q), r) ELSE Append(q, r)

\* A reporter that never drains.
FlushNever(q) == FALSE

\* A successful POST finds reports queued: the buffer is drained before the next tick.
FlushDue(q) == q # <<>>

\* A drain that goes on after a failed send.
DrainOn(q, failed) == Tail(q)

\* What a drain step leaves of the buffer q: a failed send leaves it as it is.
Drained(q, failed) == IF failed THEN q ELSE Tail(q)

\* The backend's log after a request carrying report n got the reply r.
Received(n, r) == IF r.err THEN received ELSE Append(received, n)

RepFrame ==
    /\ UNCHANGED <<state, callsign, departure, arrival, stopCh, stopClosed, pTick, pConn,
                   fsCall, flightEvents>>
    /\ UNCHANGED <<lastLat, lastLng, lastChanged, currentInterval, lastPost>>
    /\ UNCHANGED <<simVars, wireVars, recordVars, termVars, lockVars>>
    /\ UNCHANGED <<engineVars, adapterVars, loopVars, callerVars, obsVars>>

\* The tick ends: its locals are gone.
RepTickEnd(p) ==
    /\ ppc' = [ppc EXCEPT ![p] = "select"]
    /\ report' = 0
    /\ tries' = 0
    /\ freshTick' = FALSE
    /\ PosLocalsGone(p)

\* The report of the tick is built.
RepBuild(p) ==
    /\ ppc[p] = "report"
    /\ built < MaxReports
    /\ built' = built + 1
    /\ report' = built + 1
    /\ tries' = 0
    /\ freshTick' = backendUp
    /\ ppc' = [ppc EXCEPT ![p] = "send"]
    /\ UNCHANGED <<pending, received, backendUp, outages, fd, posChanged>>
    /\ RepFrame

\* One attempt of doRequestWithRetry.
RepSend(p) ==
    /\ ppc[p] = "send"
    /\ \E r \in BackendReplies :
        /\ received' = Received(report, r)
        /\ IF RetryFailed(r)
             THEN /\ tries' = tries + 1
                  /\ ppc' = [ppc EXCEPT ![p] = IF GiveUp(tries + 1) THEN "queue" ELSE "send"]
                  /\ UNCHANGED <<report, freshTick, fd, posChanged>>
             ELSE IF FlushDue(pending)
                    THEN /\ tries' = tries + 1
                         /\ ppc' = [ppc EXCEPT ![p] = "flush"]
                         /\ UNCHANGED <<report, freshTick, fd, posChanged>>
                    ELSE RepTickEnd(p)
    /\ UNCHANGED <<pending, built, backendUp, outages>>
    /\ RepFrame

\* All attempts failed: the report is queued.
RepQueue(p) ==
    /\ ppc[p] = "queue"
    /\ pending' = Enqueue(pending, report)
    /\ RepTickEnd(p)
    /\ UNCHANGED <<built, received, backendUp, outages>>
    /\ RepFrame

\* flushPendingReports, one queued report: the oldest is sent; a failure ends the drain.
RepFlush(p) ==
    /\ ppc[p] = "flush"
    /\ \E r \in BackendReplies :
        /\ received' = Received(Head(pending), r)
        /\ pending' = Drained(pending, RetryFailed(r))
        /\ IF RetryFailed(r) \/ pending' = <<>>
             THEN RepTickEnd(p)
             ELSE UNCHANGED <<ppc, report, tries, freshTick, fd, posChanged>>
    /\ UNCHANGED <<built, backendUp, outages>>
    /\ RepFrame

\* The backend becomes unreachable, or reachable again.
BackendChange ==
    /\ outages < MaxOutages
    /\ outages' = outages + 1
    /\ backendUp' = ~backendUp
    /\ UNCHANGED <<pending, report, tries, built, received, freshTick>>
    /\ UNCHANGED <<flightVars, simVars, cadenceVars, wireVars, recordVars, termVars, lockVars>>
    /\ UNCHANGED <<engineVars, adapterVars, loopVars, callerVars, obsVars>>

\* close(stopCh), the end of TestPositionLoop_QueuesOnFailure
CloseStopCh ==
    /\ stopCh # 0
    /\ stopCh \notin stopClosed
    /\ stopClosed' = stopClosed \cup {stopCh}
    /\ UNCHANGED <<state, callsign, departure, arrival, stopCh, ppc, pTick, pConn, fsCall,
                   flightEvents>>
    /\ UNCHANGED <<simVars, cadenceVars, reporterVars, wireVars, recordVars, termVars, lockVars>>
    /\ UNCHANGED <<engineVars, adapterVars, loopVars, callerVars, obsVars>>

\* An age one second later.  An age is only ever compared with the backoff b in force
\* (line 343), and b changes only where the age is reset (lines 338-339, 344-351), so
\* ages from b upwards are one value.
Aged(age, b) == IF age >= b THEN age ELSE age + 1

\* A goroutine that can run does so well within the second: time passes only while
\* every loop waits in its select statement or inside the adapter's open, and while the
\* ConnectSim caller has no successful probe due.
Waiting(l) ==
    \/ pc[l] \in {"none", "done", "rcConnect"}
    \/ pc[l] = "select" /\ ~tickPending[l] /\ chSel[l] \notin chClosed

PosWaiting(p) ==
    \/ ppc[p] \in {"none", "done", "report", "send", "flush"}
    \/ ppc[p] = "select" /\ ~pTick[p] /\ p \notin stopClosed

PosRunning(p) == ppc[p] \notin {"none", "done"}

\* One second passes: every age grows and the tickers fire.  The period a position
\* loop has set is kept in currentInterval; it does not space the ticks of the model,
\* which sees a tick of every running loop after each second.
Advance ==
    /\ \A l \in Loops : Waiting(l)
    /\ \A p \in Positions : PosWaiting(p)
    /\ ~(cs = "wait" /\ simActive)
    /\ tickPending' = [l \in Loops |-> tickPending[l] \/ pc[l] \notin {"none", "done"}]
    /\ lastReconnectAttempt' = [l \in Loops |-> Aged(lastReconnectAttempt[l], reconnectBackoff[l])]
    /\ csElapsed' = IF cs = "wait" THEN Min(csElapsed + 1, ConnectWait) ELSE csElapsed
    /\ UNCHANGED <<pc, chSel, lConn, lRec, wasActive, lData, reconnectBackoff, rcConn>>
    /\ pTick' = [p \in Positions |-> pTick[p] \/ PosRunning(p)]
    /\ lastChanged' = [p \in Positions |->
                          IF PosRunning(p) THEN Min(lastChanged[p] + 1, StaticAfter + 1)
                          ELSE lastChanged[p]]
    /\ UNCHANGED <<lastLat, lastLng, currentInterval, fd, posChanged, lastPost>>
    /\ stampAge' = Min(stampAge + 1, StaticAfter + 1)
    /\ UNCHANGED <<simData, moves, reporterVars, wireVars, recordVars, termVars, lockVars>>
    /\ lastReceived' = [a \in Adapters |-> Older(lastReceived[a])]
    /\ UNCHANGED <<cs, csConn, csResult, csNativeFailed, uiCalls>>
    /\ UNCHANGED <<adKind, adOpen, adData, adRecv, getDataErr, connectErr, connectCalls,
                   disconnectCalls, faults>>
    /\ UNCHANGED <<engineVars, obsVars>>
    /\ UNCHANGED <<state, callsign, departure, arrival, stopCh, stopClosed, ppc, pConn,
                   fsCall, flightEvents>>

\* --------------------------------------------------------------- the engine

NoAdapter == [a \in Adapters |-> FALSE]

\* NewFlightService
FlightInit ==
    /\ state = "idle"
    /\ callsign = ""
    /\ departure = ""
    /\ arrival = ""
    /\ stopCh = 0
    /\ stopClosed = {}
    /\ ppc = [p \in Positions |-> "none"]
    /\ pTick = [p \in Positions |-> FALSE]
    /\ pConn = [p \in Positions |-> 0]
    /\ fsCall = [name |-> "none", was |-> "idle", reply |-> NoReply, result |-> "none",
                 seq |-> 0]
    /\ flightEvents = <<>>
    /\ lastLat = [p \in Positions |-> 0]
    /\ lastLng = [p \in Positions |-> 0]
    /\ lastChanged = [p \in Positions |-> 0]
    /\ currentInterval = [p \in Positions |-> posIntervalLow]
    /\ fd = [p \in Positions |-> ZeroData]
    /\ posChanged = [p \in Positions |-> FALSE]
    /\ lastPost = [p \in Positions |-> NoPost]
    /\ ticksAfterStop = [p \in Positions |-> 0]
    /\ startedFor = [p \in Positions |-> ""]

\* The mocks of the tests hold sampleFlightData().
SimInit ==
    /\ simData = sampleFlightData
    /\ moves = 0
    /\ stampAge = StaticAfter + 1

\* No report has been built, nothing is queued, the backend answers.
ReporterInit ==
    /\ pending = <<>>
    /\ report = 0
    /\ tries = 0
    /\ built = 0
    /\ received = <<>>
    /\ freshTick = FALSE
    /\ backendUp = TRUE
    /\ outages = 0

\* ------------------------------------------------- recording and export

\* An empty table flight_data, no export in progress.
StoreInit ==
    /\ nextId = 1
    /\ exPc = "idle"
    /\ exRows = <<>>
    /\ exFile = <<>>
    /\ exRet = [err |-> TRUE, lines |-> <<>>, next |-> 0, clean |-> FALSE]
    /\ exClean = FALSE
    /\ recCalls = 0

RecFrame == UNCHANGED <<adapterVars, callerVars, obsVars, flightVars, simVars, cadenceVars,
                        reporterVars, wireVars, termVars, lockVars>>

\* StartRecording: an error without an adapter or when already recording.
StartRecording ==
    /\ recCalls < MaxRecCalls
    /\ recCalls' = recCalls + 1
    /\ IF connector = 0 \/ recording
         THEN UNCHANGED <<recording, dataCount>>
         ELSE recording' = TRUE /\ dataCount' = 0
    /\ UNCHANGED <<connector, simActive, streaming, streamStopCh, dbRows, chClosed>>
    /\ UNCHANGED <<nextId, exPc, exRows, exFile, exRet, exClean>>
    /\ UNCHANGED loopVars
    /\ RecFrame

\* StopRecording
StopRecording ==
    /\ recCalls < MaxRecCalls
    /\ recCalls' = recCalls + 1
    /\ recording' = FALSE
    /\ UNCHANGED <<connector, simActive, streaming, streamStopCh, dataCount, dbRows, chClosed>>
    /\ UNCHANGED <<nextId, exPc, exRows, exFile, exRet, exClean>>
    /\ UNCHANGED loopVars
    /\ RecFrame

\* INSERT INTO flight_data (data) VALUES (?)
Inserted(rows, id) == Append(rows, id)

\* json.Marshal and the INSERT of the tick's snapshot (lines 377-391); a failing insert
\* is logged and the tick ends.
LoopInsert(l) ==
    /\ pc[l] = "insert"
    /\ \E ok \in BOOLEAN :
         IF ok /\ nextId <= MaxRows
           THEN /\ dbRows' = Inserted(dbRows, nextId)
                /\ nextId' = nextId + 1
                /\ exClean' = (exClean /\ exPc = "idle")
                /\ pc' = [pc EXCEPT ![l] = "count"]
                /\ UNCHANGED <<lConn, lRec, wasActive, lData, rcConn>>
           ELSE /\ Continue(l)
                /\ UNCHANGED <<dbRows, nextId, exClean>>
    /\ UNCHANGED <<chSel, tickPending, reconnectBackoff, lastReconnectAttempt>>
    /\ UNCHANGED <<connector, simActive, streaming, streamStopCh, recording, dataCount,
                   chClosed>>
    /\ UNCHANGED <<exPc, exRows, exFile, exRet, recCalls>>
    /\ RecFrame

\* f.dataCount++ under the mutex (lines 393-395)
LoopCount(l) ==
    /\ pc[l] = "count"
    /\ dataCount' = dataCount + 1
    /\ exClean' = (exClean /\ exPc = "idle")
    /\ Continue(l)
    /\ UNCHANGED <<chSel, tickPending, reconnectBackoff, lastReconnectAttempt>>
    /\ UNCHANGED <<connector, simActive, streaming, streamStopCh, recording, dbRows, chClosed>>
    /\ UNCHANGED <<nextId, exPc, exRows, exFile, exRet, recCalls>>
    /\ RecFrame

\* The lines of the file: the header, then one line per row of the result.
Lines(rows) == <<"header">> \o rows

ExportReturn(e) ==
    /\ exPc' = "idle"
    /\ exRet' = [err |-> e, lines |-> exFile', next |-> nextId, clean |-> exClean']

\* ExportCSV up to the end of the loop over the rows: the SELECT ... ORDER BY id, the
\* creation of the file, the header and one line per row (lines 204-267). It touches
\* neither the mutex nor the recording flag.
ExportWrite ==
    /\ exPc = "idle"
    /\ recCalls < MaxRecCalls
    /\ recCalls' = recCalls + 1
    /\ \E o \in {"ok", "query", "create"} :
         /\ exRows' = IF o = "query" THEN <<>> ELSE dbRows
         /\ exFile' = IF o = "ok" THEN Lines(dbRows) ELSE <<>>
         /\ exClean' = TRUE
         /\ IF o = "ok"
              THEN exPc' = "purge" /\ UNCHANGED exRet
              ELSE ExportReturn(TRUE)
    /\ UNCHANGED <<engineVars, loopVars, nextId>>
    /\ RecFrame

\* A purge that deletes nothing.
PurgeNothing(rows) == rows

\* DELETE FROM flight_data
Purged(rows) == <<>>

\* The purge after the export (lines 269-273).
ExportPurge ==
    /\ exPc = "purge"
    /\ UNCHANGED <<nextId, exRows, exFile, recCalls>>
    /\ \E ok \in BOOLEAN :
         IF ok
           THEN /\ dbRows' = Purged(dbRows)
                /\ exPc' = "reset"
                /\ UNCHANGED <<exRet, exClean>>
           ELSE /\ UNCHANGED <<dbRows, exClean>>
                /\ ExportReturn(TRUE)
    /\ UNCHANGED <<connector, simActive, streaming, streamStopCh, recording, dataCount,
                   chClosed>>
    /\ UNCHANGED loopVars
    /\ RecFrame

\* f.dataCount = 0 under the mutex, return nil (lines 275-279).
ExportReset ==
    /\ exPc = "reset"
    /\ dataCount' = 0
    /\ UNCHANGED <<nextId, exRows, exFile, exClean, recCalls>>
    /\ ExportReturn(FALSE)
    /\ UNCHANGED <<connector, simActive, streaming, streamStopCh, recording, dbRows, chClosed>>
    /\ UNCHANGED loopVars
    /\ RecFrame

\* ------------------------------------------------- mutexes and blocking waits

\* The engine's mutex, the flight reporter's mutex and the native adapter's mutex.
Mutexes == {"E", "F", "S"}

\* The run threads the native adapter can start.
RunIds == {"run1", "run2"}

\* A caller of the engine, dataStreamLoop, a caller of the flight reporter,
\* positionLoop and the run threads.
LkThreads == {"ui", "poll", "fl", "pos"} \cup RunIds

\* No call is in progress and no thread runs: nobody holds a mutex.
LockInit ==
    /\ muOwner = [m \in Mutexes |-> ""]
    /\ thPc = [t \in LkThreads |-> "none"]
    /\ nat = [sc |-> FALSE, stopCh |-> 0, stopped |-> 0, chans |-> 0, closed |-> {},
              panic |-> FALSE]
    /\ runStopped = [r \in RunIds |-> 0]
    /\ errCh = ""
    /\ eng = [connector |-> FALSE, streaming |-> FALSE, flight |-> FALSE]
    /\ lkCalls = 0

LkFrame == UNCHANGED <<engineVars, adapterVars, loopVars, callerVars, obsVars, flightVars,
                       simVars, cadenceVars, reporterVars, wireVars, recordVars, termVars>>

Goto(t, to) == thPc' = [thPc EXCEPT ![t] = to]

\* mu.Lock() and mu.RLock(): the caller proceeds when nobody holds the mutex.
LkAcquire(t, m, to) ==
    /\ muOwner[m] = ""
    /\ muOwner' = [muOwner EXCEPT ![m] = t]
    /\ Goto(t, to)

\* mu.Unlock() and mu.RUnlock()
LkRelease(t, m, to) ==
    /\ muOwner' = [muOwner EXCEPT ![m] = ""]
    /\ Goto(t, to)

\* close(c): closing a closed channel panics.
ClosedOn(n, c) == IF c \in n.closed THEN [n EXCEPT !.panic = TRUE]
                                    ELSE [n EXCEPT !.closed = @ \cup {c}]

FreeRuns == {r \in RunIds : thPc[r] = "none"}

\* DisconnectSim around its call of the adapter (part_017 lines 113-128): the mutex is
\* held from entry to return.
LkDisconnectSim ==
    /\ ~nat.panic
    /\ \/ /\ thPc["ui"] = "idle"
          /\ lkCalls < MaxLockCalls
          /\ lkCalls' = lkCalls + 1
          /\ LkAcquire("ui", "E", "dsLocked")
          /\ UNCHANGED eng
       \/ /\ thPc["ui"] = "dsLocked"
          /\ eng' = [eng EXCEPT !.streaming = FALSE]
          /\ Goto("ui", IF eng.connector THEN "disc" ELSE "dsUnlock")
          /\ UNCHANGED <<muOwner, lkCalls>>
       \/ /\ thPc["ui"] = "dsUnlock"
          /\ eng' = [eng EXCEPT !.connector = FALSE]
          /\ LkRelease("ui", "E", "idle")
          /\ UNCHANGED lkCalls
    /\ UNCHANGED <<nat, runStopped, errCh>>
    /\ LkFrame

\* Where Disconnect returns to: DisconnectSim, or attemptReconnect's Connect.
DiscReturn(t) == IF t = "ui" THEN "dsUnlock" ELSE "conn"

\* SimConnectAdapter.Disconnect (part_000 lines 167-177): s.sc is read under the
\* adapter's mutex; s.stopCh and s.stopped are read when their statement is executed.
LkDisconnect(t) ==
    /\ ~nat.panic
    /\ \/ /\ thPc[t] = "disc"
          /\ LkAcquire(t, "S", "discRead")
          /\ UNCHANGED nat
       \/ /\ thPc[t] = "discRead"
          /\ LkRelease(t, "S", IF nat.sc THEN "discClose" ELSE DiscReturn(t))
          /\ UNCHANGED nat
       \/ /\ thPc[t] = "discClose"
          /\ nat' = ClosedOn(nat, nat.stopCh)
          /\ Goto(t, "discWait")
          /\ UNCHANGED muOwner
       \/ /\ thPc[t] = "discWait"
          /\ nat.stopped \in nat.closed
          /\ Goto(t, DiscReturn(t))
          /\ UNCHANGED <<muOwner, nat>>
    /\ UNCHANGED <<runStopped, errCh, eng, lkCalls>>
    /\ LkFrame

\* SimConnectAdapter.Connect (part_000 lines 157-165): two new channels, a new run
\* thread, and the wait for what it sends on errCh.
LkConnect(t) ==
    /\ ~nat.panic
    /\ \/ /\ thPc[t] = "conn"
          /\ FreeRuns # {}
          /\ LET r == CHOOSE x \in FreeRuns : TRUE
             IN  /\ thPc' = [thPc EXCEPT ![t] = "connWait", ![r] = "start"]
                 /\ errCh' = r
          /\ nat' = [nat EXCEPT !.stopCh = nat.chans + 1, !.stopped = nat.chans + 2,
                                !.chans = nat.chans + 2]
       \/ /\ thPc[t] = "connWait"
          /\ thPc[errCh] \in {"loop", "cleanup", "cleaning", "done", "failed"}
          /\ Goto(t, "select")
          /\ errCh' = ""
          /\ UNCHANGED nat
    /\ UNCHANGED <<muOwner, runStopped, eng, lkCalls>>
    /\ LkFrame

\* SimConnectAdapter.run (part_000 lines 180-233): `defer close(s.stopped)` evaluates
\* s.stopped when the defer statement is executed; the loop reads s.stopCh each time.
LkRun(r) ==
    /\ ~nat.panic
    /\ \/ /\ thPc[r] = "start"
          /\ runStopped' = [runStopped EXCEPT ![r] = nat.stopped]
          /\ Goto(r, "open")
          /\ UNCHANGED <<muOwner, nat>>
       \/ /\ thPc[r] = "open"
          /\ \E ok \in BOOLEAN :
               IF ok THEN Goto(r, "publish") /\ UNCHANGED nat
                     ELSE Goto(r, "failed") /\ nat' = ClosedOn(nat, runStopped[r])
          /\ UNCHANGED <<muOwner, runStopped>>
       \/ /\ thPc[r] = "publish"
          /\ LkAcquire(r, "S", "published")
          /\ UNCHANGED <<nat, runStopped>>
       \/ /\ thPc[r] = "published"
          /\ nat' = [nat EXCEPT !.sc = TRUE]
          /\ LkRelease(r, "S", "loop")
          /\ UNCHANGED runStopped
       \/ /\ thPc[r] = "loop"
          /\ nat.stopCh \in nat.closed
          /\ Goto(r, "cleanup")
          /\ UNCHANGED <<muOwner, nat, runStopped>>
       \/ /\ thPc[r] = "cleanup"
          /\ LkAcquire(r, "S", "cleaning")
          /\ UNCHANGED <<nat, runStopped>>
       \/ /\ thPc[r] = "cleaning"
          /\ nat' = ClosedOn([nat EXCEPT !.sc = FALSE], runStopped[r])
          /\ LkRelease(r, "S", "done")
          /\ UNCHANGED runStopped
    /\ UNCHANGED <<errCh, eng, lkCalls>>
    /\ LkFrame

\* dataStreamLoop (part_017 lines 313-361): the stop case, the tick's read of the engine
\* under its mutex, the adapter's GetFlightData under the adapter's mutex, and on a
\* failure the reconnect attempt.
LkDataStreamLoop ==
    /\ ~nat.panic
    /\ \/ /\ thPc["poll"] = "select"
          /\ ~eng.streaming
          /\ Goto("poll", "done")
          /\ UNCHANGED muOwner
       \/ /\ thPc["poll"] = "select"
          /\ LkAcquire("poll", "E", "tick")
       \/ /\ thPc["poll"] = "tick"
          /\ LkRelease("poll", "E", IF eng.connector THEN "get" ELSE "select")
       \/ /\ thPc["poll"] = "get"
          /\ LkAcquire("poll", "S", "getRead")
       \/ /\ thPc["poll"] = "getRead"
          /\ \E due \in BOOLEAN :
               LkRelease("poll", "S", IF due /\ FreeRuns # {} THEN "rcLock" ELSE "select")
    /\ UNCHANGED <<nat, runStopped, errCh, eng, lkCalls>>
    /\ LkFrame

\* attemptReconnect up to its adapter calls (part_017 lines 402-409).
LkAttemptReconnect ==
    /\ ~nat.panic
    /\ \/ /\ thPc["poll"] = "rcLock"
          /\ LkAcquire("poll", "E", "rcRead")
       \/ /\ thPc["poll"] = "rcRead"
          /\ LkRelease("poll", "E", IF eng.connector THEN "disc" ELSE "select")
    /\ UNCHANGED <<nat, runStopped, errCh, eng, lkCalls>>
    /\ LkFrame

\* StopFlight (part_002 lines 119-140): the flight mutex is held across the request.
LkStopFlight ==
    /\ ~nat.panic
    /\ \/ /\ thPc["fl"] = "idle"
          /\ lkCalls < MaxLockCalls
          /\ lkCalls' = lkCalls + 1
          /\ LkAcquire("fl", "F", "stopLocked")
          /\ UNCHANGED eng
       \/ /\ thPc["fl"] = "stopLocked"
          /\ IF eng.flight THEN Goto("fl", "stopHttp") /\ UNCHANGED muOwner
                           ELSE LkRelease("fl", "F", "idle")
          /\ UNCHANGED <<eng, lkCalls>>
       \/ /\ thPc["fl"] = "stopHttp"
          /\ Goto("fl", "end")
          /\ UNCHANGED <<muOwner, eng, lkCalls>>
       \/ /\ thPc["fl"] = "end"
          /\ eng' = [eng EXCEPT !.flight = FALSE]
          /\ LkRelease("fl", "F", "idle")
          /\ UNCHANGED lkCalls
    /\ UNCHANGED <<nat, runStopped, errCh>>
    /\ LkFrame

\* positionLoop (part_002 lines 200-249): GetFlightDataNow takes the engine's mutex and
\* then the adapter's, buildPositionReport the flight mutex, then the report is posted.
LkPositionLoop ==
    /\ ~nat.panic
    /\ \/ /\ thPc["pos"] = "select"
          /\ ~eng.flight
          /\ Goto("pos", "done")
          /\ UNCHANGED muOwner
       \/ /\ thPc["pos"] = "select"
          /\ LkAcquire("pos", "E", "nowRead")
       \/ /\ thPc["pos"] = "nowRead"
          /\ LkRelease("pos", "E", IF eng.connector THEN "nowGet" ELSE "select")
       \/ /\ thPc["pos"] = "nowGet"
          /\ LkAcquire("pos", "S", "nowGot")
       \/ /\ thPc["pos"] = "nowGot"
          /\ \E ok \in BOOLEAN : LkRelease("pos", "S", IF ok THEN "build" ELSE "select")
       \/ /\ thPc["pos"] = "build"
          /\ LkAcquire("pos", "F", "built")
       \/ /\ thPc["pos"] = "built"
          /\ LkRelease("pos", "F", "post")
       \/ /\ thPc["pos"] = "post"
          /\ Goto("pos", "select")
          /\ UNCHANGED muOwner
    /\ UNCHANGED <<nat, runStopped, errCh, eng, lkCalls>>
    /\ LkFrame

\* NewFlightDataService: no adapter, no loop, not recording.
ServiceInit ==
    /\ connector = 0
    /\ simActive = FALSE
    /\ streaming = FALSE
    /\ streamStopCh = 0
    /\ recording = FALSE
    /\ dataCount = 0
    /\ dbRows = <<>>
    /\ chClosed = {}

\* The adapters constructed so far: none, or the ReconnectableMockConnector instances
\* of a test, made with a snapshot or without, failing or not, with a lastReceived of
\* the test's choice.
AdaptersInit(mocks) ==
    /\ adKind = [a \in Adapters |-> IF a \in mocks THEN "TestSim" ELSE ""]
    /\ adOpen = NoAdapter
    /\ adData \in {[a \in Adapters |-> IF a \in mocks THEN d ELSE "nil"] : d \in {"nil", "snap"}}
    /\ adRecv = NoAdapter
    /\ getDataErr \in {[a \in Adapters |-> a \in mocks /\ e] : e \in BOOLEAN}
    /\ connectErr = NoAdapter
    /\ lastReceived \in {[a \in Adapters |-> IF a \in mocks THEN t ELSE Never] :
                            t \in {Never, 0, StaleAfter + 1}}
    /\ connectCalls = [a \in Adapters |-> 0]
    /\ disconnectCalls = [a \in Adapters |-> 0]
    /\ faults = 0

\* No dataStreamLoop goroutine has been started, but for those of the set running.
LoopsInit(running) ==
    /\ pc = [l \in Loops |-> IF l \in running THEN "enter" ELSE "none"]
    /\ chSel = [l \in Loops |-> 0]
    /\ tickPending = [l \in Loops |-> FALSE]
    /\ lConn = [l \in Loops |-> 0]
    /\ lRec = [l \in Loops |-> FALSE]
    /\ wasActive = [l \in Loops |-> FALSE]
    /\ lData = [l \in Loops |-> "err"]
    /\ reconnectBackoff = [l \in Loops |-> 0]
    /\ lastReconnectAttempt = [l \in Loops |-> AgeCap]
    /\ rcConn = [l \in Loops |-> 0]

CallerInit ==
    /\ cs = "idle"
    /\ csConn = 0
    /\ csElapsed = 0
    /\ csResult = "none"
    /\ csNativeFailed = FALSE
    /\ uiCalls = 0

ObsInit ==
    /\ liveOk = FALSE
    /\ discReturned = FALSE
    /\ fdAfterDisc = FALSE
    /\ emptyAfterDisc = 0
    /\ connState = "none"
    /\ activatedSinceBind = FALSE

\* The application after start-up: main wires the two services, nothing is connected.
Init ==
    /\ ServiceInit
    /\ AdaptersInit({})
    /\ LoopsInit({})
    /\ CallerInit
    /\ ObsInit
    /\ FlightInit
    /\ SimInit
    /\ WireInit
    /\ StoreInit
    /\ LockInit
    /\ ReporterInit

\* The harness of TestDataStreamLoopReconnectsOnFailure and of
\* TestDataStreamLoopDoesNotReconnectWhenNeverActive: a mock bound to a streaming
\* engine, one loop started.
MockInit ==
    /\ connector = 1
    /\ simActive \in BOOLEAN
    /\ streaming = TRUE
    /\ streamStopCh = 1
    /\ recording = FALSE
    /\ dataCount = 0
    /\ dbRows = <<>>
    /\ chClosed = {}
    /\ AdaptersInit({1})
    /\ simActive => adData[1] = "snap" /\ ~getDataErr[1]
    /\ LoopsInit({1})
    /\ CallerInit
    /\ ObsInit
    /\ FlightInit
    /\ SimInit
    /\ WireInit
    /\ StoreInit
    /\ LockInit
    /\ ReporterInit

\* The harness of TestBuildPositionReport: a mock with a snapshot bound to an engine
\* that is sim-active and does not stream, and a new FlightService.
FlightTestInit ==
    /\ connector = 1
    /\ simActive = TRUE
    /\ streaming = FALSE
    /\ streamStopCh = 0
    /\ recording = FALSE
    /\ dataCount = 0
    /\ dbRows = <<>>
    /\ chClosed = {}
    /\ AdaptersInit({1})
    /\ adData[1] = "snap"
    /\ ~getDataErr[1]
    /\ lastReceived[1] = Never
    /\ LoopsInit({})
    /\ CallerInit
    /\ ObsInit
    /\ FlightInit
    /\ SimInit
    /\ WireInit
    /\ StoreInit
    /\ LockInit
    /\ ReporterInit

LoopStep(l) ==
    \/ LoopEnter(l)
    \/ LoopStop(l)
    \/ LoopTick(l)
    \/ LoopGet(l)
    \/ LoopErrLock(l)
    \/ LoopErrEmit(l)
    \/ LoopBackoff(l)
    \/ LoopRcDisconnect(l)
    \/ LoopRcConnect(l)
    \/ LoopOkLock(l)
    \/ LoopOkEmit(l)
    \/ LoopEmitData(l)

Next ==
    \/ \E t \in SimTypes : ConnectSimOpen(t)
    \/ ConnectSimProbe
    \/ ConnectSimDeadline
    \/ DisconnectSim
    \/ \E a \in Adapters : SimSend(a)
    \/ \E l \in Loops : LoopStep(l)
    \/ Advance

Spec == Init /\ [][Next]_vars

\* close(fds.streamStopCh), the last statement of the loop tests
CloseStream ==
    /\ streamStopCh # 0
    /\ streamStopCh \notin chClosed
    /\ chClosed' = chClosed \cup {streamStopCh}
    /\ UNCHANGED <<connector, simActive, streaming, streamStopCh, recording, dataCount, dbRows>>
    /\ UNCHANGED <<adapterVars, loopVars, callerVars, obsVars, flightVars, simVars,
                   cadenceVars, reporterVars, wireVars, recordVars, termVars, lockVars>>

MockNext ==
    \/ \E a \in Adapters, e \in BOOLEAN : SetError(a, e)
    \/ \E a \in Adapters, e \in BOOLEAN : SetConnectError(a, e)
    \/ \E l \in Loops : LoopStep(l)
    \/ CloseStream
    \/ Advance

SpecMock == MockInit /\ [][MockNext]_vars

\* Every started goroutine is scheduled and the clock runs.
Fairness ==
    /\ \A l \in Loops : WF_vars(LoopStep(l))
    /\ WF_vars(Advance)

SpecMockFair == SpecMock /\ Fairness

\* The reports queued before: the n newest of them, named 1 - n .. 0.
Queued(n) == [i \in 1..n |-> i - n]

\* The harness of TestPositionLoop_QueuesOnFailure: a mock with a snapshot bound to a
\* sim-active engine, a FlightService in state active and its position loop started;
\* the loop has run for a while: its buffer is empty, or one short of full, or full.
ReporterTestInit ==
    /\ connector = 1
    /\ simActive = TRUE
    /\ streaming = FALSE
    /\ streamStopCh = 0
    /\ recording = FALSE
    /\ dataCount = 0
    /\ dbRows = <<>>
    /\ chClosed = {}
    /\ AdaptersInit({1})
    /\ adData[1] = "snap"
    /\ ~getDataErr[1]
    /\ lastReceived[1] = Never
    /\ LoopsInit({})
    /\ CallerInit
    /\ ObsInit
    /\ state = "active"
    /\ callsign = "TEST"
    /\ departure = "EGLL"
    /\ arrival = "KJFK"
    /\ stopCh = 1
    /\ stopClosed = {}
    /\ ppc = [p \in Positions |-> IF p = 1 THEN "select" ELSE "none"]
    /\ pTick = [p \in Positions |-> FALSE]
    /\ pConn = [p \in Positions |-> 0]
    /\ fsCall = [name |-> "none", was |-> "idle", reply |-> NoReply, result |-> "none",
                 seq |-> 0]
    /\ flightEvents = <<>>
    /\ lastLat = [p \in Positions |-> 0]
    /\ lastLng = [p \in Positions |-> 0]
    /\ lastChanged = [p \in Positions |-> 0]
    /\ currentInterval = [p \in Positions |-> posIntervalLow]
    /\ fd = [p \in Positions |-> ZeroData]
    /\ posChanged = [p \in Positions |-> FALSE]
    /\ lastPost = [p \in Positions |-> NoPost]
    /\ ticksAfterStop = [p \in Positions |-> 0]
    /\ startedFor = [p \in Positions |-> IF p = 1 THEN "TEST" ELSE ""]
    /\ SimInit
    /\ WireInit
    /\ StoreInit
    /\ LockInit
    /\ pending \in {Queued(n) : n \in {0, maxPendingReports - 1, maxPendingReports}}
    /\ report = 0
    /\ tries = 0
    /\ built = 0
    /\ received = <<>>
    /\ freshTick = FALSE
    /\ backendUp \in BOOLEAN
    /\ outages = 0

RepStep(p) ==
    \/ PosStop(p)
    \/ PosTick(p)
    \/ PosGet(p)
    \/ PosInterval(p)
    \/ RepBuild(p)
    \/ RepSend(p)
    \/ RepQueue(p)
    \/ RepFlush(p)

ReporterNext ==
    \/ \E p \in Positions : RepStep(p)
    \/ BackendChange
    \/ CloseStopCh
    \/ Advance

SpecReporter == ReporterTestInit /\ [][ReporterNext]_vars

\* A position loop on a mock whose snapshot the test changes: the harness of
\* TestPositionLoop_QueuesOnFailure with nothing queued and the backend answering.
CadenceInit ==
    /\ ReporterTestInit
    /\ pending = <<>>
    /\ backendUp

PosStep(p) ==
    \/ PosStop(p)
    \/ PosTick(p)
    \/ PosGet(p)
    \/ PosInterval(p)
    \/ PosReport(p)
    \/ PosLogged(p)

FlightNext ==
    \/ \E c \in Callsigns, d \in Departures, a \in Arrivals : StartFlight(c, d, a)
    \/ StopFlight
    \/ FinishFlight
    \/ \E p \in Positions : PosStep(p)
    \/ \E a \in Adapters, e \in BOOLEAN : SetError(a, e)
    \/ Advance

SpecFlight == FlightTestInit /\ [][FlightNext]_vars

CadenceNext ==
    \/ \E p \in Positions : PosStep(p)
    \/ \E d \in DataValues : SetData(d)
    \/ CloseStopCh
    \/ Advance

SpecCadence == CadenceInit /\ [][CadenceNext]_vars

\* One adapter instance, constructed and not yet opened, used directly.
WireTestInit ==
    /\ ServiceInit
    /\ AdaptersInit({})
    /\ LoopsInit({})
    /\ CallerInit
    /\ ObsInit
    /\ FlightInit
    /\ SimInit
    /\ ReporterInit
    /\ StoreInit
    /\ LockInit
    /\ \E k \in {"X-Plane", "SimConnect"} : NewAdapterOf(k)

WireNext ==
    \/ \E o \in {"ok", "dialErr", "subErr"} : XConnect(o)
    \/ XDisconnectStop
    \/ XDisconnectConn
    \/ XGetFlightData
    \/ \E l \in Listeners : \/ XlListen(l)
                            \/ XlSelect(l)
                            \/ \E dg \in Datagrams : XlRead(l, dg)
                            \/ XlTimeout(l)
                            \/ XlEntry(l)
    \/ \E o \in {"ok", "openErr", "regErr"} : SConnect(o)
    \/ SDisconnectStop
    \/ SRunStop
    \/ SDisconnectWait
    \/ \E r \in Reports : SRunDispatch(r)
    \/ SGetFlightData

SpecWire == WireTestInit /\ [][WireNext]_vars

\* An engine bound to an open native adapter with its run thread in its loop, the
\* polling loop and the position loop of an active flight running, no call in progress.
LockTestInit ==
    /\ ServiceInit
    /\ AdaptersInit({})
    /\ LoopsInit({})
    /\ CallerInit
    /\ ObsInit
    /\ FlightInit
    /\ SimInit
    /\ ReporterInit
    /\ WireInit
    /\ StoreInit
    /\ muOwner = [m \in Mutexes |-> ""]
    /\ thPc = [t \in LkThreads |->
                 CASE t \in {"ui", "fl"} -> "idle"
                   [] t \in {"poll", "pos"} -> "select"
                   [] t = "run1" -> "loop"
                   [] OTHER -> "none"]
    /\ nat = [sc |-> TRUE, stopCh |-> 1, stopped |-> 2, chans |-> 2, closed |-> {},
              panic |-> FALSE]
    /\ runStopped = [r \in RunIds |-> IF r = "run1" THEN 2 ELSE 0]
    /\ errCh = ""
    /\ eng = [connector |-> TRUE, streaming |-> TRUE, flight |-> TRUE]
    /\ lkCalls = 0

LockNext ==
    \/ LkDisconnectSim
    \/ \E t \in {"ui", "poll"} : LkDisconnect(t)
    \/ LkConnect("poll")
    \/ \E r \in RunIds : LkRun(r)
    \/ LkDataStreamLoop
    \/ LkAttemptReconnect
    \/ LkStopFlight
    \/ LkPositionLoop

SpecLocks == LockTestInit /\ [][LockNext]_vars

\* ------------------------------------------------------------------ properties

\* No dataStreamLoop goroutine is in the middle of a tick.
Quiescent == \A l \in Loops : pc[l] \in {"none", "done", "enter", "select"}

\* C1: between ticks, IsConnected is true exactly when sim-active is, sim-active is true
\* exactly when a latest call has succeeded since the last bind and nothing has reset it
\* since, and IsConnected is never true while no adapter is bound.
C1_ConnectedIffLive ==
    Quiescent =>
        /\ IsConnected <=> simActive
        /\ simActive <=> liveOk
        /\ IsConnected => connector # 0

\* C2: once DisconnectSim has returned, no flight-data event follows, the call has caused
\* exactly one empty connection-state event, and no connection-state event carries an
\* adapter name.
C2_QuietAfterDisconnect ==
    discReturned => ~fdAfterDisc /\ emptyAfterDisc = 1 /\ connState = ""

C4_NoDataUntilReceived ==
    \A a \in Adapters :
        (adKind[a] # "" /\ adOpen[a] /\ ~adRecv[a]) => GetFlightData(a) = "err"

\* latest would succeed on the bound adapter and the stream has not been closed.
Healthy ==
    /\ connector # 0
    /\ GetFlightData(connector) # "err"
    /\ streamStopCh \notin chClosed

\* C5: a tick that finds latest failing while sim-active leads to an empty
\* connection-state event and a reconnect attempt (close, then open); while latest
\* succeeds again the engine becomes sim-active again and announces the adapter's name,
\* once: only a tick that found the engine inactive announces it.
C5_ReconnectsAndRecovers ==
    /\ \A l \in Loops :
          (pc[l] = "errLock") ~> (pc[l] = "rcConnect" /\ connState = "")
    /\ (~simActive /\ Healthy) ~> (~Healthy \/ (simActive /\ connState = "TestSim"))
    /\ [](\A l \in Loops : pc[l] \in {"okLock", "okEmit"} => ~wasActive[l])

C5_Witness ==
    /\ simActive
    /\ connState = "TestSim"
    /\ connectCalls[1] >= 1
    /\ disconnectCalls[1] >= 1
    /\ Quiescent

\* The staleness condition of the tests: sim-active, lastReceived set and older than the
\* limit.
Stale(l) ==
    /\ wasActive[l]
    /\ lastReceived[lConn[l]] # Never
    /\ lastReceived[lConn[l]] > StaleAfter

\* C6: a tick takes the failure path exactly when latest failed or the adapter's data is
\* stale; a stale tick does so although latest returned the cached snapshot.
C6_StaleTickFails ==
    \A l \in Loops :
        pc[l] \in {"errLock", "errEmit", "okLock", "okEmit", "emitData"}
            => (pc[l] \in {"errLock", "errEmit"} <=> (lData[l] = "err" \/ Stale(l)))

RECURSIVE Pow2(_)
Pow2(n) == IF n = 0 THEN 1 ELSE 2 * Pow2(n - 1)

\* The number of failed reconnect attempts of the outage, read off the doublings of the
\* backoff b > 0.
RECURSIVE Attempts(_)
Attempts(b) == IF b <= InitialBackoff THEN 0 ELSE 1 + Attempts(b \div 2)

\* C7: the wait before the n-th consecutive reconnect attempt is min(2^n * 5 s, 60 s),
\* and a successful snapshot resets the failure count and the last-attempt time to zero.
C7_BackoffFormula ==
    \A l \in Loops :
        /\ reconnectBackoff[l] > 0
              => reconnectBackoff[l] =
                    Min(Pow2(Attempts(reconnectBackoff[l])) * BackoffBase, BackoffCap)
        /\ pc[l] \in {"okLock", "okEmit", "emitData"}
              => reconnectBackoff[l] = 0 /\ lastReconnectAttempt[l] = AgeCap

\* The step is a call of the flight service.
FlightCalled == fsCall'.seq # fsCall.seq

\* C8: StartFlight called in state idle whose POST fails in transport or is answered
\* with a status >= 400 returns an error, leaves the state idle and the identity empty,
\* spawns no position loop and emits no flight-state event.
C8_StartFailureStaysIdle ==
    [][(/\ FlightCalled
        /\ fsCall'.name = "StartFlight"
        /\ fsCall'.was = "idle"
        /\ (fsCall'.reply.err \/ fsCall'.reply.status >= ErrorStatus))
          => /\ fsCall'.result = "error"
             /\ state' = "idle"
             /\ callsign' = "" /\ departure' = "" /\ arrival' = ""
             /\ ppc' = ppc
             /\ stopCh' = stopCh
             /\ flightEvents' = flightEvents]_vars

C8_Witness ==
    /\ fsCall.name = "StartFlight"
    /\ fsCall.was = "idle"
    /\ fsCall.reply.status = 500
    /\ fsCall.result = "error"
    /\ state = "idle"
    /\ callsign = ""

\* The step is a FinishFlight call in state active whose POST was answered with a
\* status >= 400.
FinishRefused ==
    /\ FlightCalled
    /\ fsCall'.name = "FinishFlight"
    /\ fsCall'.was = "active"
    /\ ~fsCall'.reply.err
    /\ fsCall'.reply.status >= ErrorStatus

\* C9 as stated: such a call returns an error and leaves the state idle, the position
\* loop signalled to stop and the identity cleared.
C9_FinishRefusedEndsFlight ==
    [][FinishRefused
          => /\ fsCall'.result = "error"
             /\ state' = "idle"
             /\ stopCh \in stopClosed'
             /\ callsign' = "" /\ departure' = "" /\ arrival' = ""]_vars

\* C9: such a call returns an error and changes nothing: the flight stays active, its
\* position loop is not signalled, the identity is kept and no event is emitted.
C9_FinishRefusedKeepsFlight ==
    [][FinishRefused
          => /\ fsCall'.result = "error"
             /\ state' = "active"
             /\ UNCHANGED <<callsign, departure, arrival, stopCh, stopClosed, ppc,
                            flightEvents>>]_vars

C9_Witness ==
    /\ fsCall.name = "FinishFlight"
    /\ fsCall.was = "active"
    /\ fsCall.reply.status = 400
    /\ fsCall.result = "error"
    /\ state = "active"
    /\ callsign # ""
    /\ stopCh \notin stopClosed

\* C10: every StopFlight call made in state active returns success and leaves the state
\* idle, the position loop signalled to stop and the identity cleared, whatever became
\* of the stop POST.
C10_StopAlwaysEnds ==
    [][(FlightCalled /\ fsCall'.name = "StopFlight" /\ fsCall'.was = "active")
          => /\ fsCall'.result = "ok"
             /\ state' = "idle"
             /\ stopCh # 0
             /\ stopCh \in stopClosed'
             /\ stopCh' = 0
             /\ callsign' = "" /\ departure' = "" /\ arrival' = ""]_vars

C10_Witness ==
    /\ fsCall.name = "StopFlight"
    /\ fsCall.was = "active"
    /\ fsCall.reply.err
    /\ fsCall.result = "ok"
    /\ state = "idle"
    /\ callsign = ""
    /\ stopCh = 0

\* The position loops that have been started and not signalled to stop.
Unsignalled == {p \in Positions : ppc[p] \notin {"none", "done"} /\ p \notin stopClosed}

\* C11: StartFlight in state active, and StopFlight or FinishFlight in state idle, return
\* an error, send no request and leave the state, the identity, the position loops and the
\* events as they were; at most one position loop has not been signalled to stop, and one
\* has not exactly while a flight is active.
C11_GuardsReject ==
    /\ [][(/\ FlightCalled
            /\ \/ fsCall'.name = "StartFlight" /\ fsCall'.was = "active"
               \/ fsCall'.name \in {"StopFlight", "FinishFlight"} /\ fsCall'.was = "idle")
              => /\ fsCall'.result = "error"
                 /\ fsCall'.reply = NoReply
                 /\ UNCHANGED <<state, callsign, departure, arrival, stopCh, stopClosed,
                                ppc, flightEvents>>]_vars
    /\ [](Cardinality(Unsignalled) <= 1)
    /\ [](state = "active" <=> Unsignalled # {})

C11_Witness ==
    /\ fsCall.name = "StartFlight"
    /\ fsCall.was = "active"
    /\ fsCall.result = "error"
    /\ state = "active"
    /\ Cardinality(Unsignalled) = 1

\* The report x is in the sequence q.
InSeq(x, q) == \E i \in 1..Len(q) : q[i] = x

QueueStep(p) == ppc[p] = "queue" /\ ppc'[p] # "queue"

FlushStep(p) == ppc[p] = "flush" /\ (received' # received \/ ppc'[p] # "flush")

DirectStep(p) == ppc[p] = "send" /\ received' = Append(received, report)

StatusFailed(r) == r.err \/ r.status >= ErrorStatus

\* C16: a position POST answered with a 4xx or 5xx status is handled like a transport
\* failure: the loop takes its report as failed, never as delivered.
C16_StatusTakenAsFailure ==
    \A p \in Positions :
        ppc[p] = "posted" => (lastPost[p].failed <=> StatusFailed(lastPost[p].reply))

\* The step is the interval choice of loop p.
IntervalStep(p) == ppc[p] = "interval" /\ ppc'[p] = "report"

\* The snapshot of the tick is airborne below the critical height.
Critical(p) == ~fd[p].onGround /\ fd[p].agl < criticalAltThreshold

\* C17 as stated: on every tick whose snapshot is airborne below 50 ft AGL the interval
\* chosen is 0.5 s, whatever the position history.
C17_CriticalAlways ==
    [][\A p \in Positions :
        (IntervalStep(p) /\ Critical(p)) => currentInterval'[p] = posIntervalCritical]_vars

\* C17: on such a tick the interval chosen is 0.5 s, unless the position is the one
\* recorded more than 5 s ago: then it is 60 s.
C17_CriticalUnlessStatic ==
    [][\A p \in Positions :
        (IntervalStep(p) /\ Critical(p)) =>
            currentInterval'[p] =
                IF fd[p].lat = lastLat[p] /\ fd[p].lng = lastLng[p]
                   /\ lastChanged[p] > StaticAfter
                  THEN posIntervalStatic ELSE posIntervalCritical]_vars

C17_Witness ==
    /\ ppc[1] = "report"
    /\ Critical(1)
    /\ ~posChanged[1]
    /\ lastChanged[1] = StaticAfter
    /\ currentInterval[1] = posIntervalCritical

\* C18 as stated: the 60 s interval is chosen only if neither the position nor the
\* timestamp of the snapshot has changed for more than 5 s.
C18_StaticNeedsStamp ==
    [][\A p \in Positions :
        (IntervalStep(p) /\ currentInterval'[p] = posIntervalStatic /\ fd[p] = simData)
            => stampAge > StaticAfter]_vars

\* C18: the 60 s interval is chosen exactly when latitude and longitude are those
\* recorded at the last change and that change is more than 5 s old; the timestamp of
\* the snapshot plays no part.
C18_StaticIffPositionHeld ==
    [][\A p \in Positions :
        IntervalStep(p) =>
            (currentInterval'[p] = posIntervalStatic
                <=> /\ fd[p].lat = lastLat[p]
                    /\ fd[p].lng = lastLng[p]
                    /\ lastChanged[p] > StaticAfter)]_vars

C18_Witness ==
    /\ ppc[1] = "report"
    /\ currentInterval[1] = posIntervalStatic
    /\ fd[1] = simData
    /\ stampAge <= StaticAfter

\* The step is a ConnectSim call up to the release of the mutex.
ConnectSimCall == cs = "idle" /\ uiCalls' = uiCalls + 1 /\ ~discReturned'

\* C19: a ConnectSim call in auto mode that gets no open native adapter opens an
\* X-Plane adapter itself: either that open succeeds and the adapter bound is a newly
\* opened one named "X-Plane", or it fails and the call binds nothing; no adapter of
\* another kind is bound by the call.
C19_AutoFallsBack ==
    [][(ConnectSimCall /\ csNativeFailed') =>
        \/ /\ csResult' = "pending"
           /\ connector' # 0
           /\ connector' # connector
           /\ adKind[connector'] = ""
           /\ adKind'[connector'] = "X-Plane"
           /\ adOpen'[connector']
        \/ /\ csResult' = "openFailed"
           /\ connector' = connector
           /\ adKind' = adKind
           /\ faults' > faults]_vars

C19_Witness ==
    /\ csNativeFailed
    /\ cs = "wait"
    /\ connector = csConn
    /\ adKind[connector] = "X-Plane"
    /\ faults > 0

\* Loop l is inside attemptReconnect on the bound adapter: about to close or open it.
Reconnecting(l) == pc[l] \in {"rcDisconnect", "rcConnect"} /\ rcConn[l] = connector

\* C20: while the engine has not been sim-active with the bound adapter, no loop is in a
\* reconnect on it: the engine calls neither close nor open on that adapter.
C20_NoReconnectBeforeActive ==
    (connector # 0 /\ ~activatedSinceBind) => \A l \in Loops : ~Reconnecting(l)

\* A mock with a snapshot bound to a streaming engine with an empty store, one loop
\* started; the mock's GetFlightData never fails.
RecordInit ==
    /\ MockInit
    /\ adData[1] = "snap"
    /\ ~getDataErr[1]
    /\ ~connectErr[1]
    /\ lastReceived[1] = Never

RecordNext ==
    \/ StartRecording
    \/ StopRecording
    \/ ExportWrite
    \/ ExportPurge
    \/ ExportReset
    \/ \E l \in Loops :
          \/ LoopEnter(l)
          \/ LoopTick(l)
          \/ LoopGet(l)
          \/ LoopOkLock(l)
          \/ LoopOkEmit(l)
          \/ LoopEmitData(l)
          \/ LoopInsert(l)
          \/ LoopCount(l)
    \/ Advance

SpecRecord == RecordInit /\ [][RecordNext]_vars

\* The adapter under test is closed: it holds no transport and no stop channel.
Closed == IF wKind = "X-Plane" THEN ~xConn /\ xStop = 0 ELSE ~sSc

\* The step belongs to a Disconnect call of the caller.
DisconnectStep ==
    \/ wCall \in {"disc", "wait"} /\ wCall' = "idle"
    \/ wCall = "idle" /\ wCall' \in {"disc", "wait"}
    \/ wCall = "idle" /\ wCall' = "idle" /\ wOps' # wOps /\ wRet'.op = "Disconnect"

\* The step is the return of a Disconnect call.
DisconnectReturn == DisconnectStep /\ wCall' = "idle"

\* C21: Disconnect never panics, always returns nil and leaves the adapter closed, and a
\* Disconnect of a closed adapter (closed before, or never opened) changes no field of
\* the adapter and closes no channel: two closes in a row leave the state of one.
C21_DisconnectIdempotent ==
    [][/\ DisconnectStep => UNCHANGED wPanic
       /\ DisconnectReturn => (Closed' /\ ~wRet'.err)
       /\ (DisconnectStep /\ Closed) =>
            UNCHANGED <<xConn, xStop, xData, sSc, sLatestData, sStopCh, wClosed, wPanic>>]_vars

C21_Witness ==
    /\ wCall = "idle"
    /\ wRet.op = "Disconnect"
    /\ wRet.prev = "Disconnect"
    /\ wClosed = {1}
    /\ Closed
    /\ ~wPanic

\* The names a transponder state has in a snapshot.
XpdrStates == {"off", "stand-by", "active"}

\* C22: every snapshot GetFlightData returns without an error, which the engine emits and
\* returns from GetFlightDataNow as it is, has a transponder state that is "off",
\* "stand-by" or "active", also before the adapter has received a transponder value.
C22_TransponderStateNamed ==
    (wKind # "" /\ ~rdRet.err) => rdRet.data["Radios.XpdrState"] \in XpdrStates

\* The snapshots the adapter under test has published: what GetFlightData would return.
Published ==
    IF wKind = "X-Plane" THEN (IF xConn THEN {xData} ELSE {})
    ELSE IF wKind = "SimConnect" THEN (IF sLatestData.nil THEN {} ELSE {sLatestData.data})
    ELSE {}

EngineNames == <<"Engines[0]", "Engines[1]", "Engines[2]", "Engines[3]">>

\* The readings of engine entry k of snapshot d are those of an absent engine.
EngineZeroed(d, k) ==
    /\ ~d[EngineNames[k] \o ".Running"]
    /\ \A f \in {".N1", ".N2", ".ThrottlePos", ".MixturePos", ".PropPos"} :
          d[EngineNames[k] \o f] = 0

\* C23: in every published snapshot an engine entry with exists = false is not running
\* and has N1, N2, throttle, mixture and prop at zero.
C23_AbsentEnginesZeroed ==
    \A d \in Published : \A k \in 1..4 :
        ~d[EngineNames[k] \o ".Exists"] => EngineZeroed(d, k)

\* The step is a GetFlightData call that returns a snapshot.
ReadStep == rdRet' # rdRet /\ ~rdRet'.err

\* C30: the snapshot GetFlightData returns has all or none of the values of a message
\* the producer thread is applying: a whole native record, and for every listener that
\* walks a datagram the snapshot from before the datagram or the one after all of it.
C30_ReaderSeesWholeMessages ==
    [][ReadStep =>
         IF wKind = "SimConnect"
           THEN rdRet'.data \in {FromReport(r) : r \in Reports}
           ELSE \A l \in Listeners :
                   xlPc[l] = "walk" =>
                       rdRet'.data \in {xlStart[l],
                                        ApplyFrom(xlStart[l], xlBuf[l], 5, xlN[l])}]_vars

\* The field of the snapshot each subscription index stands for, in the order of the
\* dictionary: position (0-3), attitude (4-11), engine 1 (12-17), sensors (18-21),
\* radios (22-29), autopilot (30-36), altimeter (37), lights (38-40), controls (41-46),
\* time (47-51), G-force (52), engines 2 to 4 (53-70), weight (71-72).
DatarefField ==
    <<
      "Position.Latitude", "Position.Longitude", "Position.Altitude",
      "Position.AltitudeAGL", "Attitude.Pitch", "Attitude.Roll", "Attitude.HeadingTrue",
      "Attitude.HeadingMag", "Attitude.VS", "Attitude.IAS", "Attitude.TAS", "Attitude.GS",
      "Engines[0].Running", "Engines[0].N1", "Engines[0].N2", "Engines[0].ThrottlePos",
      "Engines[0].MixturePos", "Engines[0].PropPos", "Sensors.OnGround",
      "Sensors.StallWarning", "Sensors.OverspeedWarning", "Sensors.SimulationRate",
      "Radios.Com1", "Radios.Com2", "Radios.Nav1", "Radios.Nav2", "Radios.Nav1OBS",
      "Radios.Nav2OBS", "Radios.XpdrCode", "Radios.XpdrState", "Autopilot.Master",
      "Autopilot.Heading", "Autopilot.Altitude", "Autopilot.VS", "Autopilot.Speed",
      "Autopilot.ApproachHold", "Autopilot.NavLock", "Altimeter", "Lights.Beacon",
      "Lights.Strobe", "Lights.Landing", "Controls.Elevator", "Controls.Aileron",
      "Controls.Rudder", "Controls.Flaps", "Controls.Spoilers", "Controls.GearDown",
      "SimTime.ZuluTime", "SimTime.ZuluDay", "SimTime.ZuluMonth", "SimTime.ZuluYear",
      "SimTime.LocalTime", "Attitude.GForce", "Engines[1].Running", "Engines[1].N1",
      "Engines[1].N2", "Engines[1].ThrottlePos", "Engines[1].MixturePos",
      "Engines[1].PropPos", "Engines[2].Running", "Engines[2].N1", "Engines[2].N2",
      "Engines[2].ThrottlePos", "Engines[2].MixturePos", "Engines[2].PropPos",
      "Engines[3].Running", "Engines[3].N1", "Engines[3].N2", "Engines[3].ThrottlePos",
      "Engines[3].MixturePos", "Engines[3].PropPos", "Weight.TotalWeight",
      "Weight.FuelWeight"
    >>

\* The unit conversion the dictionary documents for subscription index i.
DatarefRule(i) ==
    CASE i \in {2, 3} -> "metres to feet"
      [] i \in {10, 11} -> "m/s to knots"
      [] i \in {71, 72} -> "kg to pounds"
      [] i \in 22..25 -> "Hz to MHz"
      [] i \in {15, 16, 17, 44, 45, 56, 57, 58, 62, 63, 64, 68, 69, 70} -> "ratio to percent"
      [] i \in {12, 18, 19, 20, 30, 35, 36, 38, 39, 40, 46, 53, 59, 65} -> "flag"
      [] i = 29 -> "transponder state"
      [] OTHER -> "none"

\* The value a documented conversion gives for the received value v.
Converted(rule, v) ==
    CASE rule = "metres to feet" -> Mul(v, FeetPerMetre)
      [] rule = "m/s to knots" -> Mul(v, KnotsPerMps)
      [] rule = "kg to pounds" -> Mul(v, PoundsPerKg)
      [] rule = "Hz to MHz" -> v \div 100
      [] rule = "ratio to percent" -> v * 100
      [] rule = "flag" -> (v # 0)
      [] rule = "transponder state" ->
            (IF Trunc(v) = 0 THEN "off" ELSE IF Trunc(v) = 1 THEN "stand-by" ELSE "active")
      [] OTHER -> v

\* C24: processing one entry (i, v) of an RREF response sets the snapshot field the
\* dictionary maps i to, to the documented conversion of v, and changes no other field;
\* an entry with an index outside the dictionary changes nothing, and a datagram
\* shorter than 5 bytes or without the RREF header is dropped with no entry processed.
C24_EntryUpdatesMappedField ==
    [][\A l \in Listeners :
         /\ (xlPc[l] = "walk" /\ xlOffset'[l] # xlOffset[l]) =>
               LET w == WordAt(xlBuf[l], xlOffset[l])
               IN  xData' = IF w.idx \in 0..(NumDatarefs - 1)
                              THEN [xData EXCEPT ![DatarefField[w.idx + 1]] =
                                                    Converted(DatarefRule(w.idx), w.val)]
                              ELSE xData
         /\ (xlPc[l] = "read" /\ xlPc'[l] # "read"
               /\ (xlN'[l] < 5 \/ xlBuf'[l].head # "RREF")) =>
               (xlPc'[l] = "select" /\ xData' = xData)]_vars

C24_Witness ==
    /\ wKind = "X-Plane"
    /\ wMsgs = 1
    /\ xData = [ZeroFlightData EXCEPT !["Position.Altitude"] = Mul(One, FeetPerMetre)]
    /\ \E l \in Listeners : xlPc[l] = "select" /\ WordAt(xlBuf[l], 5) = Word(2, One)

\* The step is the return of an ExportCSV call with a nil error, and no row was
\* inserted or counted by the polling loop while the call ran.
ExportDone == exPc = "reset" /\ exPc' = "idle" /\ exClean'

\* The step is the query of an ExportCSV call issued right after an export that
\* returned nil: no row was inserted since.
ExportAgain ==
    /\ exPc = "idle" /\ exPc' = "purge"
    /\ ~exRet.err /\ exRet.clean /\ exRet.next = nextId

\* C25: an ExportCSV on a store holding N rows, with no row recorded while it runs,
\* writes N + 1 lines, the header and then the N rows in id order, and leaves the store
\* empty and the data count 0; an ExportCSV issued right after it writes the header only.
C25_ExportEmptiesStore ==
    [][/\ ExportDone =>
            /\ Len(exRet'.lines) = Len(exRows) + 1
            /\ exRet'.lines[1] = "header"
            /\ \A i \in 1..Len(exRows) : exRet'.lines[i + 1] = exRows[i]
            /\ \A i \in 1..Len(exRows), j \in 1..Len(exRows) : i < j => exRows[i] < exRows[j]
            /\ dbRows' = <<>>
            /\ dataCount' = 0
       /\ ExportAgain => exFile' = <<"header">>]_vars

C25_Witness ==
    /\ exPc = "idle"
    /\ ~exRet.err
    /\ exRet.clean
    /\ exRet.lines = <<"header">>
    /\ nextId = MaxRows + 1
    /\ dbRows = <<>>
    /\ dataCount = 0

\* The loops that have been started and have not returned.
Polling == {l \in Loops : pc[l] \notin {"none", "done"}}

\* Loop l was told to stop: the channel made when it was started has been closed.
Stopped(l) == l \in chClosed

\* C26: every previously started dataStreamLoop terminates, so that only the most
\* recently started one keeps polling: a loop that was told to stop finds, whenever it
\* waits at its select statement, a closed stop channel to return on.
C26_StoppedLoopReturns ==
    \A l \in Polling : (Stopped(l) /\ pc[l] = "select") => chSel[l] \in chClosed

\* Loop l flips the engine to active, the step before its connection-state event with
\* the adapter name.
FlipsActive(l) == pc[l] = "okLock" /\ pc'[l] = "okEmit"

\* C27: each return to success produces exactly one connection-state event with the
\* adapter name: the polling loop emits it for a flip from inactive to sim-active only,
\* never when the engine is sim-active already, so that between two such events there
\* is a loss of the simulator or a new binding.
C27_OneEventPerReturn == [][\A l \in Loops : FlipsActive(l) => ~simActive]_vars

\* C28: the reconnect backoff of the polling loop never exceeds 30 s.
C28_BackoffWithinLimit == \A l \in Loops : reconnectBackoff[l] <= BackoffLimit

\* The step writes a field of the engine that the mutex guards: it is made with the
\* mutex held.
MutexHeld == <<connector, simActive, streaming, streamStopCh>>' #
                 <<connector, simActive, streaming, streamStopCh>>

\* The step calls open or close of an adapter.
AdapterCalled ==
    \/ adOpen' # adOpen
    \/ connectCalls' # connectCalls
    \/ disconnectCalls' # disconnectCalls

\* C29: the engine invokes no adapter operation while it holds its mutex: no critical
\* section contains an open or a close of an adapter.
C29_AdapterCallsOutsideMutex == [][AdapterCalled => ~MutexHeld]_vars

\* The listener threads that have been started and have not returned.
Listening == IF wKind = "X-Plane" THEN {l \in Listeners : xlPc[l] \notin {"none", "done"}}
                                  ELSE {}

\* Listener l was told to stop: the channel made by the Connect that started it (the
\* l-th channel of the adapter) has been closed.
ListenerStopped(l) == l \in wClosed

\* C31: after Disconnect the listener thread terminates within one read-deadline
\* interval, so that at most one listener runs after open, close, open: a listener
\* that was told to stop finds, whenever it polls the stop channel at the top of its
\* loop, a closed channel to return on.
C31_StoppedListenerReturns ==
    \A l \in Listening :
        (ListenerStopped(l) /\ xlPc[l] = "select" /\ wCall = "idle" /\ ~wPanic)
            => (xStop # 0 /\ xStop \in wClosed)

\* C32: a position loop whose stop channel StopFlight or FinishFlight has closed starts
\* at most one further tick before it returns.
C32_StoppedLoopTicksOnce ==
    \A p \in Positions : ticksAfterStop[p] <= 1
\* Connect of the native adapter returns.
SimConnectReturn ==
    /\ wKind = "SimConnect"
    /\ wOps' = wOps + 1
    /\ wCall' = "idle"
    /\ wRet'.op = "Connect"

C34_ChangedIffOneDiffers ==
    [][\A p \in Positions :
        IntervalStep(p) =>
            (posChanged'[p] <=> ((fd[p].lat # lastLat[p]) # (fd[p].lng # lastLng[p])))]_vars

\* C34: a tick takes the position as changed exactly when latitude or longitude, or
\* both, differ from the value recorded at the last change.
C34_ChangedIffEitherDiffers ==
    [][\A p \in Positions :
        IntervalStep(p) =>
            (posChanged'[p] <=> (fd[p].lat # lastLat[p] \/ fd[p].lng # lastLng[p]))]_vars

C34_Witness ==
    /\ ppc[1] = "report"
    /\ posChanged[1]
    /\ lastLat[1] = fd[1].lat /\ lastLat[1] # 0
    /\ lastLng[1] = fd[1].lng /\ lastLng[1] # 0
\* The step is the return of a ConnectSim call with an error.
ConnectSimFails ==
    \/ ConnectSimCall /\ cs' = "idle" /\ csResult' \in {"unavailable", "openFailed"}
    \/ cs = "wait" /\ cs' = "idle" /\ csResult' = "silent"

\* C35: when a ConnectSim call returns an error, no adapter is bound, the polling loop is
\* stopped and sim-active is false.
C35_FailedConnectLeavesNothing ==
    [][ConnectSimFails => (connector' = 0 /\ ~streaming' /\ ~simActive')]_vars
\* C36: once DisconnectSim has returned and no polling loop is in the middle of a tick,
\* no adapter is open.
C36_NothingOpenAfterDisconnect ==
    (discReturned /\ Quiescent) => \A a \in Adapters : ~adOpen[a]
\* C37: a position report that a loop has sent carries the callsign of the flight the
\* loop was started for.
C37_ReportOfOwnFlight ==
    \A p \in Positions : ppc[p] = "posted" => lastPost[p].callsign = startedFor[p]
\* The latest call of loop l's tick has failed on the bound adapter while the engine,
\* active with that adapter before, is inactive.
OutageTick(l) ==
    /\ pc[l] = "backoff"
    /\ lConn[l] = connector
    /\ activatedSinceBind
    /\ ~simActive

\* C38: on every failed tick of an outage the backoff is armed, so that another
\* reconnect attempt follows when it has elapsed.
C38_BackoffArmedInOutage ==
    \A l \in Loops : OutageTick(l) => reconnectBackoff[l] > 0
\* The rows the step deletes from the store.
Deleted == {dbRows[i] : i \in 1..Len(dbRows)} \ {dbRows'[i] : i \in 1..Len(dbRows')}

\* The rows written to the file of the export in progress.
Exported == {exRows[i] : i \in 1..Len(exRows)}

\* C39: every row the purge of an export deletes has been written to the file of that
\* export, and when the export returns the data count is the number of rows in the store.
C39_ExportLosesNoRow ==
    [][/\ (exPc = "purge" /\ exPc' = "reset") => Deleted \subseteq Exported
       /\ (exPc = "reset" /\ exPc' = "idle") => dataCount' = Len(dbRows')]_vars
\* The mutex thread t is about to take, "" when it is not at a Lock.
Wanted(t) ==
    CASE thPc[t] \in {"rcLock"} -> "E"
      [] thPc[t] = "select" /\ t \in {"poll", "pos"} -> "E"
      [] thPc[t] \in {"disc", "get", "nowGet", "publish", "cleanup"} -> "S"
      [] thPc[t] = "build" -> "F"
      [] OTHER -> ""

\* The run threads that will close the channel s.stopped refers to.
Closing == {r \in RunIds : \/ thPc[r] = "start"
                            \/ /\ thPc[r] \in {"open", "publish", "published", "loop",
                                                "cleanup", "cleaning"}
                               /\ runStopped[r] = nat.stopped}

\* The threads thread t waits for: the holder of the mutex it wants; for the stopped
\* signal, the run threads that will close it; for the open result, the run thread that
\* sends it; and a run thread in its loop waits for a caller of Disconnect.
WaitsFor(t) ==
    CASE Wanted(t) # "" -> {muOwner[Wanted(t)]} \ {""}
      [] thPc[t] = "discWait" -> Closing
      [] thPc[t] = "connWait" -> {errCh}
      [] t \in RunIds /\ thPc[t] = "loop" -> {c \in {"ui", "poll"} : thPc[c] # "done"}
      [] OTHER -> {}

Blocked(t) ==
    \/ Wanted(t) # "" /\ muOwner[Wanted(t)] # ""
    \/ thPc[t] = "discWait" /\ nat.stopped \notin nat.closed
    \/ thPc[t] = "connWait" /\ thPc[errCh] \in {"start", "open", "publish", "published"}
    \/ t \in RunIds /\ thPc[t] = "loop" /\ nat.stopCh \notin nat.closed

\* C40: no set of threads is such that each of them is blocked and waits only for
\* threads of the set: there is no cyclic wait among the mutexes and the signals.
C40_NoCyclicWait ==
    \A D \in SUBSET LkThreads :
        D # {} => \E t \in D : ~Blocked(t) \/ ~(WaitsFor(t) \subseteq D)
====
